---- MODULE Spec2Model ----
(***************************************************************************)
(* State-machine model of the UCSet transactional ordered containers:      *)
(*   - consistent_set_gt  (std::set variant)                               *)
(*   - consistent_avl_gt  (AVL variant, with the avl_node_gt algebra)      *)
(* and their transaction_t objects (watch / upsert / erase / stage /       *)
(* commit / reset / rollback).                                             *)
(***************************************************************************)
EXTENDS Integers, Sequences, FiniteSets, TLC

\* ------------------------------------------------------------------------
\* Bounds of the model
\* ------------------------------------------------------------------------
MaxId == 2
MaxVal == 2
MaxTxn == 2
MaxGen == 3
MaxWatches == 1
MaxClears == 1
MaxBatch == 2
MaxOps == 6
MaxTxnOps == 7
MaxAvlOps == 5
MaxAvlEraseOps == 6
MaxParts == 2
MaxThreads == 2
MaxTurns == 3

Ids == 1..MaxId
Vals == 1..MaxVal
Txns == 1..MaxTxn
Parts == 1..MaxParts
Threads == 1..MaxThreads

VARIABLES
    variant,        \* which container class is instantiated: "set" or "avl"
    entries,        \* store.entries_ : sequence (std::set) or tree (AVL)
    generation,     \* store.generation_
    visible_count,  \* store.visible_count_
    txn,            \* the transaction objects opened on the store
    clears,         \* number of clear() calls made so far
    ops,            \* number of calls made so far
    budget,         \* the number of calls the environment makes (0: any number)
    crashed,        \* the process ran into undefined behaviour and died
    last,           \* the call that has just returned, with its result
    parts,          \* partitioned_gt::parts_ : one container per part
    mutexes,        \* partitioned_gt::mutexes_ : one shared mutex per part
    threads         \* the threads calling into a partitioned_gt, and where they stand

vars == <<variant, entries, generation, visible_count, txn, clears, ops, budget, crashed, last,
          parts, mutexes, threads>>

\* ------------------------------------------------------------------------
\* element_versioning_gt : entries, watches, comparator
\* ------------------------------------------------------------------------
\* An element of the tests is pair_t {key, value}; identifier_t is the key.
\* entry_t carries the element and its versioning fields.
entry_t(id, val, gen, deleted, visible) ==
    [id |-> id, val |-> val, gen |-> gen, deleted |-> deleted, visible |-> visible]

watch_t(gen, deleted) == [gen |-> gen, deleted |-> deleted]

watched_identifier_t(id, gen, deleted) == [id |-> id, watch |-> watch_t(gen, deleted)]

\* entry_t::operator!=(watch_t)
entry_differs(entry, watch) ==
    watch.deleted # entry.deleted \/ watch.gen # entry.gen

\* watch_t::operator!=(watch_t)
watch_differs(a, b) == a.deleted # b.deleted \/ a.gen # b.gen

\* entry_comparator_t::native_compare on identifiers (pair_compare_t)
native_compare(a, b) == a < b

\* entry_comparator_t::dated_compare : both sides know their generation
dated_compare(a, b) ==
    LET a_less_b == native_compare(a.id, b.id)
        b_less_a == native_compare(b.id, a.id)
    IN  IF ~a_less_b /\ ~b_less_a THEN a.gen < b.gen ELSE a_less_b

\* entry_comparator_t::same on identifiers
same(a, b) == ~native_compare(a, b) /\ ~native_compare(b, a)

\* ------------------------------------------------------------------------
\* Sequence helpers
\* ------------------------------------------------------------------------
InsertAt(s, p, e) == SubSeq(s, 1, p - 1) \o <<e>> \o SubSeq(s, p, Len(s))

\* the subsequence of s at the indices not in dead, in order
Without(s, dead) ==
    LET F[i \in 0..Len(s)] ==
            IF i = 0 THEN <<>>
            ELSE IF i \in dead THEN F[i - 1] ELSE Append(F[i - 1], s[i])
    IN  F[Len(s)]

Min(S) == CHOOSE x \in S : \A y \in S : x <= y

\* ------------------------------------------------------------------------
\* std::set<entry_t, entry_comparator_t> as the sequence of its in-order
\* iteration.  A lookup descends a search tree; when the stored keys are
\* consistently ordered the descent has one result, when they are not
\* (generations are mutable in place) the result depends on the shape of
\* the tree, and every position a descent can end in is a possible result.
\* Positions are 1..Len(s); Len(s)+1 is end().
\* ------------------------------------------------------------------------
\* positions a descent can end in; left is the set of positions whose node
\* sends the descent to its left
descend(s, left) ==
    {p \in 1..(Len(s) + 1) :
        /\ (p = Len(s) + 1 \/ p \in left)
        /\ (p = 1 \/ (p - 1) \notin left)}

\* std::set::lower_bound / upper_bound with an identifier (native compare):
\* identifiers are never mutated, so these have a single result.
set_lower_bound(s, id) ==
    Min({p \in 1..(Len(s) + 1) : p = Len(s) + 1 \/ ~native_compare(s[p].id, id)})

set_upper_bound(s, id) ==
    Min({p \in 1..(Len(s) + 1) : p = Len(s) + 1 \/ native_compare(id, s[p].id)})

\* std::set::find(dated_identifier_t): lower bound, then equivalence test
set_find_dated(s, dated) ==
    LET lb == {p \in 1..Len(s) : ~dated_compare(s[p], dated)}
    IN  {IF p <= Len(s) /\ ~dated_compare(dated, s[p]) THEN p ELSE Len(s) + 1 :
            p \in descend(s, lb)}

\* std::set::insert(entry) : unique insertion; the results are records
\* [seq, position, inserted] as in insert_return_type
set_insert(s, entry) ==
    LET ub == {p \in 1..Len(s) : dated_compare(entry, s[p])}
    IN  {IF p = 1 \/ dated_compare(s[p - 1], entry)
            THEN [seq |-> InsertAt(s, p, entry), position |-> p, inserted |-> TRUE]
            ELSE [seq |-> s, position |-> p - 1, inserted |-> FALSE] :
            p \in descend(s, ub)}

\* std::set::merge(source): every source node whose key has no equivalent
\* in the target is spliced over, the others stay in the source
RECURSIVE set_merge_from(_, _, _, _)
set_merge_from(target, source, i, rest) ==
    IF i > Len(source) THEN {[target |-> target, source |-> rest]}
    ELSE UNION {IF r.inserted
                    THEN set_merge_from(r.seq, source, i + 1, rest)
                    ELSE set_merge_from(target, source, i + 1, Append(rest, source[i])) :
                    r \in set_insert(target, source[i])}

set_merge(target, source) == set_merge_from(target, source, 1, <<>>)

\* ------------------------------------------------------------------------
\* consistent_set_gt : private helpers
\* ------------------------------------------------------------------------
\* erase_visible(begin, end, callback): erases the visible entries of
\* [begin, end), each one after callback(*current); called counts the calls
erase_visible(s, begin, end) ==
    LET dead == {i \in begin..(end - 1) : s[i].visible}
    IN  [seq |-> Without(s, dead), erased |-> Cardinality(dead),
         called |-> Cardinality(dead)]

\* unmask_and_compact(begin, end, generation_to_unmask), as the loop runs:
\* st = [seq, count, dead, last] ; last = 0 stands for `end`
RECURSIVE unmask_loop(_, _, _, _)
unmask_loop(st, current, end, generation_to_unmask) ==
    IF current >= end THEN st
    ELSE
        LET keep_this == st.seq[current].gen = generation_to_unmask
            count1 == IF keep_this /\ ~st.seq[current].visible THEN st.count + 1 ELSE st.count
            seq1 == IF keep_this
                        THEN [st.seq EXCEPT ![current].visible = TRUE]
                        ELSE st.seq
        IN  IF ~seq1[current].visible
                THEN unmask_loop([st EXCEPT !.seq = seq1, !.count = count1],
                                 current + 1, end, generation_to_unmask)
                ELSE unmask_loop(
                        [seq |-> seq1,
                         count |-> IF st.last # 0 THEN count1 - 1 ELSE count1,
                         dead |-> IF st.last # 0 THEN st.dead \cup {st.last} ELSE st.dead,
                         last |-> current],
                        current + 1, end, generation_to_unmask)

unmask_and_compact(s, count, begin, end, generation_to_unmask) ==
    LET st == unmask_loop([seq |-> s, count |-> count, dead |-> {}, last |-> 0],
                          begin, end, generation_to_unmask)
    IN  [seq |-> Without(st.seq, st.dead), count |-> st.count]

\* ------------------------------------------------------------------------
\* consistent_set_gt : reads
\* ------------------------------------------------------------------------
Missing == [found |-> FALSE, entry |-> entry_t(0, 0, 0, FALSE, FALSE)]
Found(entry) == [found |-> TRUE, entry |-> entry]

\* find(comparable, callback_found, callback_missing)
set_find(s, id) ==
    LET first == set_lower_bound(s, id)
        second == set_upper_bound(s, id)
        vis == {i \in first..(second - 1) : s[i].visible}
    IN  IF vis # {} THEN Found(s[Min(vis)]) ELSE Missing

\* upper_bound(comparable, callback_found, callback_missing)
set_upper_bound_visible(s, id) ==
    LET it == set_upper_bound(s, id)
        vis == {i \in it..Len(s) : s[i].visible}
    IN  IF vis # {} THEN Found(s[Min(vis)]) ELSE Missing

\* range(lower, upper, callback) const : the sequence of callback arguments
set_range(s, lower, upper) ==
    LET lo == set_lower_bound(s, lower)
        hi == set_lower_bound(s, upper)
    IN  Without(s, (1..Len(s)) \ {i \in lo..(hi - 1) : s[i].visible})

\* ------------------------------------------------------------------------
\* avl_node_gt : a node is <<entry, left, right, height>>, nullptr is <<>>.
\* A null or dangling pointer dereferenced inside an operation leaves no
\* tree to speak of: the operation yields Undefined.
\* ------------------------------------------------------------------------
Nil == <<>>
Undefined == <<"undefined">>

is_nil(node) == Len(node) = 0
undefined(node) == Len(node) = 1

node_t(entry, left, right, height) ==
    IF undefined(left) \/ undefined(right) THEN Undefined
    ELSE <<entry, left, right, height>>

\* comparables: an identifier alone, or an identifier with its generation
identifier_t(id) == [id |-> id]
dated_identifier_t(id, gen) == [id |-> id, gen |-> gen]

knows_generation(x) == "gen" \in DOMAIN x

\* entry_comparator_t::less
less(a, b) ==
    IF knows_generation(a) /\ knows_generation(b)
        THEN dated_compare(a, b)
        ELSE native_compare(a.id, b.id)

get_height(node) == IF Len(node) # 4 THEN 0 ELSE node[4]

get_balance(node) ==
    IF Len(node) # 4 THEN 0 ELSE get_height(node[2]) - get_height(node[3])

RECURSIVE avl_size(_)
avl_size(node) ==
    IF Len(node) # 4 THEN 0 ELSE avl_size(node[2]) + 1 + avl_size(node[3])

\* the entries in the order for_each_left_right / for_each_bottom_up visit
RECURSIVE for_each_left_right(_)
for_each_left_right(node) ==
    IF Len(node) # 4 THEN <<>>
    ELSE for_each_left_right(node[2]) \o <<node[1]>> \o for_each_left_right(node[3])

RECURSIVE for_each_bottom_up(_)
for_each_bottom_up(node) ==
    IF Len(node) # 4 THEN <<>>
    ELSE for_each_bottom_up(node[2]) \o for_each_bottom_up(node[3]) \o <<node[1]>>

\* find_min: the entry of the leftmost node
RECURSIVE find_min(_)
find_min(node) == IF is_nil(node[2]) THEN node[1] ELSE find_min(node[2])

\* The searches return <<>> for nullptr and <<entry>> for a node.
RECURSIVE avl_find(_, _)
avl_find(node, comparable) ==
    IF is_nil(node) THEN <<>>
    ELSE IF less(comparable, node[1]) THEN avl_find(node[2], comparable)
    ELSE IF less(node[1], comparable) THEN avl_find(node[3], comparable)
    ELSE <<node[1]>>

RECURSIVE avl_lower_bound(_, _, _)
avl_lower_bound(node, comparable, successor) ==
    IF is_nil(node) THEN successor
    ELSE IF less(comparable, node[1])
        THEN avl_lower_bound(node[2], comparable, <<node[1]>>)
    ELSE IF less(node[1], comparable)
        THEN avl_lower_bound(node[3], comparable, successor)
    ELSE avl_lower_bound(node[2], comparable, <<node[1]>>)

RECURSIVE avl_upper_bound(_, _, _)
avl_upper_bound(node, comparable, successor) ==
    IF is_nil(node) THEN successor
    ELSE IF less(comparable, node[1])
        THEN avl_upper_bound(node[2], comparable, <<node[1]>>)
    ELSE IF less(node[1], comparable)
        THEN avl_upper_bound(node[3], comparable, successor)
    ELSE IF ~is_nil(node[3]) THEN <<find_min(node[3])>> ELSE successor

\* range(node, low, high, callback): the entries in the order the callback
\* receives them
RECURSIVE avl_range(_, _, _)
avl_range(node, low, high) ==
    IF is_nil(node) THEN <<>>
    ELSE IF ~less(high, node[1]) /\ ~less(node[1], low)
        THEN <<node[1]>> \o avl_range(node[2], low, high) \o avl_range(node[3], low, high)
    ELSE IF less(node[1], low) THEN avl_range(node[3], low, high)
    ELSE avl_range(node[2], low, high)

Max2(a, b) == IF a < b THEN b ELSE a

rotate_right(y) ==
    IF Len(y) # 4 THEN Undefined
    ELSE IF Len(y[2]) # 4 THEN Undefined
    ELSE LET x == y[2]
             z == x[3]
             y1 == <<y[1], z, y[3], Max2(get_height(z), get_height(y[3])) + 1>>
         IN  <<x[1], x[2], y1, Max2(get_height(x[2]), get_height(y1)) + 1>>

rotate_left(x) ==
    IF Len(x) # 4 THEN Undefined
    ELSE IF Len(x[3]) # 4 THEN Undefined
    ELSE LET y == x[3]
             z == y[2]
             x1 == <<x[1], x[2], z, Max2(get_height(x[2]), get_height(z)) + 1>>
         IN  <<y[1], x1, y[3], Max2(get_height(x1), get_height(y[3])) + 1>>

rebalance_after_insert(node, comparable) ==
    IF Len(node) # 4 THEN Undefined
    ELSE LET n == <<node[1], node[2], node[3],
                    Max2(get_height(node[2]), get_height(node[3])) + 1>>
             balance == get_balance(n)
         IN  IF balance > 1 /\ less(comparable, n[2][1]) THEN rotate_right(n)
             ELSE IF balance < -1 /\ less(n[3][1], comparable) THEN rotate_left(n)
             ELSE IF balance > 1 /\ less(n[2][1], comparable)
                 THEN rotate_right(node_t(n[1], rotate_left(n[2]), n[3], n[4]))
             ELSE IF balance < -1 /\ less(comparable, n[3][1])
                 THEN rotate_left(node_t(n[1], n[2], rotate_right(n[3]), n[4]))
             ELSE n

\* find_or_make(node, comparable, callback_found, callback_make) with the
\* callbacks of insert (overwrite = FALSE) and of upsert (overwrite = TRUE)
RECURSIVE find_or_make(_, _, _)
find_or_make(node, entry, overwrite) ==
    IF undefined(node) THEN [root |-> Undefined, inserted |-> FALSE]
    ELSE IF is_nil(node) THEN [root |-> <<entry, Nil, Nil, 1>>, inserted |-> TRUE]
    ELSE IF less(entry, node[1]) THEN
        LET downstream == find_or_make(node[2], entry, overwrite)
            relinked == node_t(node[1], downstream.root, node[3], node[4])
        IN  [root |-> IF downstream.inserted
                        THEN rebalance_after_insert(relinked, entry)
                        ELSE relinked,
             inserted |-> downstream.inserted]
    ELSE IF less(node[1], entry) THEN
        LET downstream == find_or_make(node[3], entry, overwrite)
            relinked == node_t(node[1], node[2], downstream.root, node[4])
        IN  [root |-> IF downstream.inserted
                        THEN rebalance_after_insert(relinked, entry)
                        ELSE relinked,
             inserted |-> downstream.inserted]
    ELSE [root |-> IF overwrite THEN <<entry, node[2], node[3], node[4]>> ELSE node,
          inserted |-> FALSE]

rebalance_after_extract(node) ==
    IF Len(node) # 4 THEN Undefined
    ELSE LET n == <<node[1], node[2], node[3],
                    1 + Max2(get_height(node[2]), get_height(node[3]))>>
             balance == get_balance(n)
         IN  IF balance > 1 /\ get_balance(n[2]) >= 0 THEN rotate_right(n)
             ELSE IF balance > 1 /\ get_balance(n[2]) < 0
                 THEN rotate_right(node_t(n[1], rotate_left(n[2]), n[3], n[4]))
             ELSE IF balance < -1 /\ get_balance(n[3]) <= 0 THEN rotate_left(n)
             ELSE IF balance < -1 /\ get_balance(n[3]) > 0
                 THEN rotate_left(node_t(n[1], n[2], rotate_right(n[3]), n[4]))
             ELSE n

\* extract(node, comparable) and extract(node): the results are records
\* [root, extracted], extracted being <<>> or <<entry of the node taken out>>
RECURSIVE extract(_, _)
extract(node, comparable) ==
    IF undefined(node) THEN [root |-> Undefined, extracted |-> <<>>]
    ELSE IF is_nil(node) THEN [root |-> Nil, extracted |-> <<>>]
    ELSE IF less(comparable, node[1]) THEN
        LET downstream == extract(node[2], comparable)
            relinked == node_t(node[1], downstream.root, node[3], node[4])
        IN  [root |-> IF Len(downstream.extracted) > 0
                        THEN rebalance_after_extract(relinked)
                        ELSE relinked,
             extracted |-> downstream.extracted]
    ELSE IF less(node[1], comparable) THEN
        LET downstream == extract(node[3], comparable)
            relinked == node_t(node[1], node[2], downstream.root, node[4])
        IN  [root |-> IF Len(downstream.extracted) > 0
                        THEN rebalance_after_extract(relinked)
                        ELSE relinked,
             extracted |-> downstream.extracted]
    ELSE IF ~is_nil(node[2]) /\ ~is_nil(node[3]) THEN
        \* extract(node) with two children: the smallest entry of the right
        \* branch takes the place of the node
        LET downstream == extract(node[3], find_min(node[3]))
        IN  [root |-> IF Len(downstream.extracted) = 0 THEN Undefined
                      ELSE node_t(downstream.extracted[1], node[2], downstream.root,
                                  1 + Max2(get_height(node[2]),
                                           get_height(downstream.root))),
             extracted |-> <<node[1]>>]
    ELSE IF ~is_nil(node[2]) THEN [root |-> node[2], extracted |-> <<node[1]>>]
    ELSE [root |-> node[3], extracted |-> <<node[1]>>]

\* ------------------------------------------------------------------------
\* avl_tree_gt
\* ------------------------------------------------------------------------
\* merge(extract_result_t): insert one detached node
avl_insert(root, entry) == find_or_make(root, entry, FALSE).root

\* upsert(entry)
avl_upsert(root, entry) == find_or_make(root, entry, TRUE).root

\* merge(avl_tree_t& other): the nodes of the other tree, bottom-up
RECURSIVE avl_merge_from(_, _, _)
avl_merge_from(root, nodes, i) ==
    IF i > Len(nodes) THEN root
    ELSE avl_merge_from(avl_insert(root, nodes[i]), nodes, i + 1)

avl_merge(root, other) == avl_merge_from(root, for_each_bottom_up(other), 1)

\* ------------------------------------------------------------------------
\* entry_iterator_t is a pointer to a node.  Where an operation keeps such
\* pointers while it restructures the tree, the nodes are told apart by the
\* position `at` they had in the tree when the operation began.
\* ------------------------------------------------------------------------
RECURSIVE tagged(_, _)
tagged(node, base) ==
    IF Len(node) # 4 THEN node
    ELSE LET here == base + avl_size(node[2]) + 1
         IN  <<[id |-> node[1].id, val |-> node[1].val, gen |-> node[1].gen,
                deleted |-> node[1].deleted, visible |-> node[1].visible, at |-> here],
               tagged(node[2], base), tagged(node[3], here), node[4]>>

RECURSIVE untagged(_)
untagged(node) ==
    IF Len(node) # 4 THEN node
    ELSE <<entry_t(node[1].id, node[1].val, node[1].gen, node[1].deleted, node[1].visible),
           untagged(node[2]), untagged(node[3]), node[4]>>

\* is the node still linked into the tree?
avl_has(root, at) ==
    \E i \in 1..avl_size(root) : for_each_left_right(root)[i].at = at

\* node->entry
avl_at(root, at) ==
    LET nodes == for_each_left_right(root)
    IN  nodes[CHOOSE i \in 1..Len(nodes) : nodes[i].at = at]

\* node->entry = entry
RECURSIVE avl_assign(_, _, _)
avl_assign(node, at, entry) ==
    IF Len(node) # 4 THEN node
    ELSE <<IF node[1].at = at THEN entry ELSE node[1],
           avl_assign(node[2], at, entry), avl_assign(node[3], at, entry), node[4]>>

\* ------------------------------------------------------------------------
\* consistent_avl_gt : private helpers and reads
\* ------------------------------------------------------------------------
\* the loop of unmask_and_compact(id, generation_to_unmask)
RECURSIVE avl_unmask_loop(_, _, _, _, _)
avl_unmask_loop(root, current, last_visible_entry, id, generation_to_unmask) ==
    IF undefined(root) THEN Undefined
    ELSE IF Len(current) = 0 THEN root
    ELSE IF ~avl_has(root, current[1].at) THEN Undefined
    ELSE LET entry == avl_at(root, current[1].at)
         IN  IF ~same(id, entry.id) THEN root
             ELSE LET next == avl_upper_bound(root, entry, <<>>)
                      unmasked == [entry EXCEPT
                                    !.visible = @ \/ entry.gen = generation_to_unmask]
                      marked == avl_assign(root, entry.at, unmasked)
                  IN  IF ~unmasked.visible
                        THEN avl_unmask_loop(marked, next, last_visible_entry,
                                             id, generation_to_unmask)
                        ELSE avl_unmask_loop(
                                IF Len(last_visible_entry) > 0
                                    THEN extract(marked, last_visible_entry[1]).root
                                    ELSE marked,
                                next, <<dated_identifier_t(id, entry.gen)>>,
                                id, generation_to_unmask)

avl_unmask_and_compact(root, id, generation_to_unmask) ==
    LET t == tagged(root, 0)
    IN  untagged(avl_unmask_loop(t, avl_lower_bound(t, identifier_t(id), <<>>), <<>>,
                                 id, generation_to_unmask))

\* the loop of erase_range(lower, upper, callback)
RECURSIVE avl_erase_range_loop(_, _, _)
avl_erase_range_loop(root, last_node, upper) ==
    IF undefined(root) THEN Undefined
    ELSE IF Len(last_node) = 0 THEN root
    ELSE IF ~avl_has(root, last_node[1].at) THEN Undefined
    ELSE LET entry == avl_at(root, last_node[1].at)
         IN  IF ~less(entry, upper) THEN root
             ELSE LET next == avl_upper_bound(root, entry, <<>>)
                  IN  avl_erase_range_loop(
                        IF entry.visible THEN extract(root, entry).root ELSE root,
                        next, upper)

avl_erase_range(root, lower, upper) ==
    LET t == tagged(root, 0)
    IN  untagged(avl_erase_range_loop(t, avl_lower_bound(t, lower, <<>>), upper))

\* find(comparable, callback_found, callback_missing)
RECURSIVE largest_visible(_, _, _)
largest_visible(nodes, i, best) ==
    IF i > Len(nodes) THEN best
    ELSE largest_visible(nodes, i + 1,
            IF nodes[i].visible /\ (Len(best) = 0 \/ nodes[i].gen > best[1].gen)
                THEN <<nodes[i]>> ELSE best)

avl_store_find(root, id) ==
    LET found == largest_visible(avl_range(root, identifier_t(id), identifier_t(id)),
                                 1, <<>>)
    IN  IF Len(found) > 0 THEN Found(found[1]) ELSE Missing

\* upper_bound(comparable, callback_found, callback_missing): the loop
\* skips the invisible entries; coming back to a node it has left, it
\* never returns
Unreturned == [found |-> FALSE, entry |-> Missing.entry, returns |-> FALSE]

RECURSIVE avl_next_visible(_, _, _)
avl_next_visible(root, next_visible, seen) ==
    IF Len(next_visible) = 0 THEN Missing
    ELSE IF next_visible[1].visible
        THEN Found(entry_t(next_visible[1].id, next_visible[1].val, next_visible[1].gen,
                           next_visible[1].deleted, TRUE))
    ELSE IF next_visible[1].at \in seen THEN Unreturned
    ELSE avl_next_visible(root, avl_upper_bound(root, next_visible[1], <<>>),
                          seen \cup {next_visible[1].at})

avl_store_upper_bound(root, id) ==
    LET t == tagged(root, 0)
    IN  avl_next_visible(t, avl_upper_bound(t, identifier_t(id), <<>>), {})

\* range(lower, upper, callback) const : the sequence of callback arguments
is_visible(entry) == entry.visible

avl_store_range(root, lower, upper) ==
    SelectSeq(avl_range(root, identifier_t(lower), identifier_t(upper)), is_visible)

\* ------------------------------------------------------------------------
\* Initial state
\* ------------------------------------------------------------------------
created_k == "created"
staged_k == "staged"

success_k == "success"
consistency_k == "consistency"
out_of_memory_heap_k == "out_of_memory_heap"
operation_not_permitted_k == "operation_not_permitted"
operation_would_block_k == "operation_would_block"

\* a transaction slot that no transaction() call has filled yet
\* (called, pending, watched, rival and after are history fields: the
\* identifiers whose watch() records are in watches_, what the transaction
\* staged, which identifiers it had watched when it staged, which of them a
\* rival committed meanwhile, and whose watches its writes came after)
NoTxn ==
    [open |-> FALSE, changes |-> <<>>, watches |-> <<>>, generation |-> 0,
     stage |-> created_k, called |-> {}, pending |-> <<>>, watched |-> {},
     rival |-> {}, after |-> {}]

NoCall == [op |-> "none"]

InitSet ==
    /\ variant = "set"
    /\ entries = <<>>
    /\ generation = 0
    /\ visible_count = 0
    /\ txn = [t \in Txns |-> NoTxn]
    /\ clears = 0
    /\ ops = 0
    /\ budget = MaxOps
    /\ crashed = FALSE
    /\ last = NoCall
    /\ parts = <<>> /\ mutexes = <<>> /\ threads = <<>>

\* ------------------------------------------------------------------------
\* consistent_set_gt : writes
\* ------------------------------------------------------------------------
ids_of(s) == {s[i].id : i \in 1..Len(s)}

\* a call can be made: the process is alive and the model's budget allows it
running == ~crashed /\ (budget = 0 \/ ops < budget)

\* one more call has been made on the container itself, which no
\* partitioned_gt wraps
tick ==
    /\ ops' = IF budget = 0 THEN 0 ELSE ops + 1
    /\ UNCHANGED <<parts, mutexes, threads>>

\* store_t::new_generation() is `++generation_`; the model stops at MaxGen
can_new_generation == generation < MaxGen

\* the insertion of one visible entry and the compaction before it, shared
\* by upsert(element_t&&) and upsert(entry_set_t&)
set_upsert_entry(s, count, entry) ==
    {LET range_end == r.position
         range_start == set_lower_bound(r.seq, r.seq[range_end].id)
         ev == erase_visible(r.seq, range_start, range_end)
     IN  [seq |-> ev.seq, count |-> (count + 1) - ev.erased] :
        r \in set_insert(s, entry)}

\* upsert(element_t&& element)
SetUpsert(id, val) ==
    /\ variant = "set" /\ running
    /\ tick
    /\ can_new_generation
    /\ \E r \in set_upsert_entry(entries, visible_count,
                                 entry_t(id, val, generation + 1, FALSE, TRUE)) :
            /\ entries' = r.seq
            /\ visible_count' = r.count
    /\ generation' = generation + 1
    /\ last' = [op |-> "upsert", id |-> id, val |-> val]
    /\ UNCHANGED <<variant, budget, txn, clears, crashed>>

\* the batch std::set built by upsert(begin, end): each element is emplaced
\* with a default generation and then stamped in place
RECURSIVE set_batch(_, _, _, _)
set_batch(batch, elements, i, gen) ==
    IF i > Len(elements) THEN {batch}
    ELSE UNION {set_batch([r.seq EXCEPT ![r.position].gen = gen,
                                        ![r.position].visible = TRUE],
                          elements, i + 1, gen) :
                    r \in set_insert(batch,
                                     entry_t(elements[i][1], elements[i][2], 0, FALSE, TRUE))}

\* upsert(entry_set_t& sources)
RECURSIVE set_upsert_sources(_, _, _, _)
set_upsert_sources(s, count, sources, i) ==
    IF i > Len(sources) THEN {[seq |-> s, count |-> count]}
    ELSE UNION {set_upsert_sources(r.seq, r.count, sources, i + 1) :
                    r \in set_upsert_entry(s, count, sources[i])}

Elements == Ids \X Vals
Batches == UNION {[1..n -> Elements] : n \in 1..MaxBatch}

\* upsert(elements_begin_at begin, elements_end_at end); failed is the
\* emplace into the batch that throws std::bad_alloc, 0 when none does
SetUpsertBatch(elements, failed) ==
    /\ variant = "set" /\ running
    /\ tick
    /\ can_new_generation
    /\ generation' = generation + 1
    /\ IF failed # 0
        THEN /\ last' = [op |-> "upsert_batch", status |-> out_of_memory_heap_k]
             /\ UNCHANGED <<entries, visible_count>>
        ELSE /\ \E batch \in set_batch(<<>>, elements, 1, generation + 1) :
                \E r \in set_upsert_sources(entries, visible_count, batch, 1) :
                    /\ entries' = r.seq
                    /\ visible_count' = r.count
             /\ last' = [op |-> "upsert_batch", status |-> success_k]
    /\ UNCHANGED <<variant, budget, txn, clears, crashed>>

\* range(lower, upper, callback), the mutable overload; the callback either
\* leaves the element alone (write = 0) or stores a value into it
SetRangeMut(lower, upper, write) ==
    /\ variant = "set" /\ running
    /\ tick
    /\ can_new_generation
    /\ lower <= upper
    /\ LET lo == set_lower_bound(entries, lower)
           hi == set_lower_bound(entries, upper)
       IN  entries' = [i \in 1..Len(entries) |->
                        IF lo <= i /\ i < hi /\ entries[i].visible
                            THEN [entries[i] EXCEPT
                                    !.val = IF write = 0 THEN @ ELSE write,
                                    !.gen = generation + 1]
                            ELSE entries[i]]
    /\ generation' = generation + 1
    /\ last' = NoCall
    /\ UNCHANGED <<variant, budget, visible_count, txn, clears, crashed>>

\* erase_range(lower, upper, callback)
SetEraseRange(lower, upper) ==
    /\ variant = "set" /\ running
    /\ tick
    /\ lower <= upper
    /\ LET ev == erase_visible(entries, set_lower_bound(entries, lower),
                               set_lower_bound(entries, upper))
       IN  /\ entries' = ev.seq
           /\ visible_count' = visible_count - ev.erased
    /\ last' = [op |-> "erase_range", lower |-> lower, upper |-> upper,
                erased |-> erase_visible(entries, set_lower_bound(entries, lower),
                                         set_lower_bound(entries, upper)).erased,
                callbacks |-> erase_visible(entries, set_lower_bound(entries, lower),
                                            set_lower_bound(entries, upper)).called]
    /\ UNCHANGED <<variant, budget, generation, txn, clears, crashed>>

\* clear()
SetClear ==
    /\ variant = "set" /\ running
    /\ tick
    /\ clears < MaxClears
    /\ entries' = <<>>
    /\ generation' = 0
    /\ clears' = clears + 1
    /\ last' = NoCall
    /\ UNCHANGED <<variant, budget, visible_count, txn, crashed>>

\* ------------------------------------------------------------------------
\* consistent_set_gt::transaction_t
\* ------------------------------------------------------------------------
\* the other transactions that hold a watch of id while not staged
watchers(t, id) ==
    {<<u, id>> : u \in {u \in Txns \ {t} :
        txn[u].open /\ txn[u].stage = created_k /\ id \in txn[u].called}}

\* history bookkeeping when transaction t drops its watches
forget(tx, t) ==
    [u \in Txns |-> [tx[u] EXCEPT !.after = {p \in @ : p[1] # t}]]

\* transaction()
Transaction(t) ==
    /\ running
    /\ tick
    /\ ~txn[t].open
    /\ \A u \in 1..(t - 1) : txn[u].open
    /\ can_new_generation
    /\ generation' = generation + 1
    /\ txn' = [txn EXCEPT ![t] = [NoTxn EXCEPT !.open = TRUE,
                                               !.generation = generation + 1]]
    /\ last' = NoCall
    /\ UNCHANGED <<variant, budget, entries, visible_count, clears, crashed>>

\* the change-set after transaction_t::upsert(element_t&& element)
set_txn_upsert(changes, id, val, gen) ==
    LET iterator == set_lower_bound(changes, id)
        stamped == entry_t(id, val, gen, FALSE, FALSE)
    IN  IF iterator = Len(changes) + 1 \/ ~same(changes[iterator].id, id)
            THEN InsertAt(changes, iterator, stamped)
            ELSE [changes EXCEPT ![iterator] = stamped]

\* the change-set of a transaction of generation gen that upserts the
\* elements in order
RECURSIVE set_txn_upserts(_, _, _, _)
set_txn_upserts(changes, elements, i, gen) ==
    IF i > Len(elements) THEN changes
    ELSE set_txn_upserts(set_txn_upsert(changes, elements[i][1], elements[i][2], gen),
                         elements, i + 1, gen)

\* transaction_t::upsert(element_t&& element)
SetTxnUpsert(t, id, val) ==
    /\ variant = "set" /\ running
    /\ tick
    /\ txn[t].open
    /\ txn' = [txn EXCEPT
            ![t].changes = set_txn_upsert(@, id, val, txn[t].generation),
            ![t].after = @ \cup watchers(t, id)]
    /\ last' = NoCall
    /\ UNCHANGED <<variant, budget, entries, generation, visible_count, clears, crashed>>

\* transaction_t::erase(identifier_t const& id)
SetTxnErase(t, id) ==
    /\ variant = "set" /\ running
    /\ tick
    /\ txn[t].open
    /\ LET changes == txn[t].changes
           iterator == set_lower_bound(changes, id)
       IN  txn' = [txn EXCEPT
                ![t].changes =
                    IF iterator = Len(changes) + 1 \/ ~same(changes[iterator].id, id)
                        THEN InsertAt(changes, iterator,
                                      entry_t(id, 0, txn[t].generation, TRUE, FALSE))
                        ELSE [changes EXCEPT ![iterator].gen = txn[t].generation,
                                             ![iterator].deleted = TRUE,
                                             ![iterator].visible = FALSE],
                ![t].after = @ \cup watchers(t, id)]
    /\ last' = NoCall
    /\ UNCHANGED <<variant, budget, entries, generation, visible_count, clears, crashed>>

\* transaction_t::missing_watch()
missing_watch(t) == watch_t(txn[t].generation, TRUE)

\* transaction_t::watch(identifier_t const& id)
SetTxnWatch(t, id) ==
    /\ variant = "set" /\ running
    /\ tick
    /\ txn[t].open
    /\ Len(txn[t].watches) < MaxWatches
    /\ LET r == set_find(entries, id)
       IN  txn' = [txn EXCEPT ![t].watches =
                Append(@, IF r.found
                            THEN watched_identifier_t(r.entry.id, r.entry.gen, r.entry.deleted)
                            ELSE [id |-> id, watch |-> missing_watch(t)]),
                             ![t].called = @ \cup {id}]
    /\ last' = NoCall
    /\ UNCHANGED <<variant, budget, entries, generation, visible_count, clears, crashed>>

\* the first phase of stage(): does some watch no longer match the store?
set_consistency_violated(t) ==
    \E i \in 1..Len(txn[t].watches) :
        LET id_and_watch == txn[t].watches[i]
            r == set_find(entries, id_and_watch.id)
        IN  IF r.found THEN entry_differs(r.entry, id_and_watch.watch)
                       ELSE watch_differs(missing_watch(t), id_and_watch.watch)

\* the status stage() returns
set_stage_status(t) ==
    IF set_consistency_violated(t) THEN consistency_k ELSE success_k

\* the links that replace the watches in stage()
links(changes, gen) ==
    [i \in 1..Len(changes) |-> watched_identifier_t(changes[i].id, gen, changes[i].deleted)]

\* stage() that merges its changes before it looks at its watches
SetTxnStageMergeFirst(t) ==
    /\ variant = "set" /\ running
    /\ tick
    /\ txn[t].open
    /\ \E m \in set_merge(entries, txn[t].changes) :
            /\ entries' = m.target
            /\ txn' = [txn EXCEPT ![t].changes = m.source]
    /\ last' = [op |-> "txn_stage", t |-> t, status |-> set_stage_status(t),
                again |-> FALSE]
    /\ UNCHANGED <<variant, budget, generation, visible_count, clears, crashed>>

\* transaction_t::stage(); the record of the call tells whether it comes
\* right after a rollback() of the same transaction
SetTxnStage(t) ==
    /\ variant = "set" /\ running
    /\ tick
    /\ txn[t].open
    /\ IF set_consistency_violated(t)
        THEN /\ last' = [op |-> "txn_stage", t |-> t, status |-> consistency_k,
                         again |-> last.op = "txn_rollback" /\ last.t = t
                                   /\ last.status = success_k]
             /\ UNCHANGED <<entries, txn>>
        ELSE /\ \E m \in set_merge(entries, txn[t].changes) :
                    /\ entries' = m.target
                    /\ txn' = forget([txn EXCEPT
                            ![t].watches = links(txn[t].changes, txn[t].generation),
                            ![t].changes = m.source,
                            ![t].stage = staged_k,
                            ![t].pending = txn[t].changes,
                            ![t].called = {},
                            ![t].watched = txn[t].called], t)
             /\ last' = [op |-> "txn_stage", t |-> t, status |-> success_k,
                         again |-> last.op = "txn_rollback" /\ last.t = t
                                   /\ last.status = success_k]
    /\ UNCHANGED <<variant, budget, generation, visible_count, clears, crashed>>

\* the loop of reset(): erase every staged node found by its dated identifier
RECURSIVE set_reset_loop(_, _, _)
set_reset_loop(s, watches, i) ==
    IF i > Len(watches) THEN {s}
    ELSE UNION {set_reset_loop(IF p <= Len(s) THEN Without(s, {p}) ELSE s, watches, i + 1) :
                    p \in set_find_dated(s, [id |-> watches[i].id, gen |-> watches[i].watch.gen])}

\* transaction_t::reset()
SetTxnReset(t) ==
    /\ variant = "set" /\ running
    /\ tick
    /\ txn[t].open
    /\ can_new_generation
    /\ entries' \in IF txn[t].stage = staged_k
                        THEN set_reset_loop(entries, txn[t].watches, 1)
                        ELSE {entries}
    /\ generation' = generation + 1
    /\ txn' = forget([txn EXCEPT ![t] = [NoTxn EXCEPT !.open = TRUE,
                                                      !.generation = generation + 1]], t)
    /\ last' = NoCall
    /\ UNCHANGED <<variant, budget, visible_count, clears, crashed>>

\* the loop of rollback(): extract every staged node back into changes_;
\* extracting end() is undefined behaviour, reported as ok = FALSE
RECURSIVE set_rollback_loop(_, _, _, _)
set_rollback_loop(s, changes, watches, i) ==
    IF i > Len(watches) THEN {[ok |-> TRUE, seq |-> s, changes |-> changes]}
    ELSE UNION {IF source > Len(s)
                    THEN {[ok |-> FALSE, seq |-> s, changes |-> changes]}
                    ELSE UNION {set_rollback_loop(Without(s, {source}), r.seq, watches, i + 1) :
                                    r \in set_insert(changes, s[source])} :
                    source \in set_find_dated(s, [id |-> watches[i].id,
                                                  gen |-> watches[i].watch.gen])}

\* rollback() without its first two lines, the test of stage_
SetTxnRollbackUnguarded(t) ==
    /\ variant = "set" /\ running
    /\ tick
    /\ txn[t].open
    /\ \E r \in set_rollback_loop(entries, txn[t].changes, txn[t].watches, 1) :
            IF r.ok
            THEN /\ can_new_generation
                 /\ entries' = r.seq
                 /\ generation' = generation + 1
                 /\ txn' = forget([txn EXCEPT ![t].changes = r.changes,
                                              ![t].watches = <<>>,
                                              ![t].stage = created_k,
                                              ![t].generation = generation + 1,
                                              ![t].called = {},
                                              ![t].pending = <<>>,
                                              ![t].watched = {},
                                              ![t].rival = {}], t)
                 /\ last' = [op |-> "txn_rollback", t |-> t, status |-> success_k]
                 /\ UNCHANGED crashed
            ELSE /\ crashed' = TRUE
                 /\ last' = [op |-> "txn_rollback", t |-> t, status |-> "undefined"]
                 /\ UNCHANGED <<entries, generation, txn>>
    /\ UNCHANGED <<variant, budget, visible_count, clears>>

\* transaction_t::rollback()
SetTxnRollback(t) ==
    /\ variant = "set" /\ running
    /\ tick
    /\ txn[t].open
    /\ IF txn[t].stage # staged_k
        THEN /\ last' = [op |-> "txn_rollback", t |-> t, status |-> operation_not_permitted_k]
             /\ UNCHANGED <<entries, generation, txn, crashed>>
        ELSE \E r \in set_rollback_loop(entries, txn[t].changes, txn[t].watches, 1) :
                IF r.ok
                THEN /\ can_new_generation
                     /\ entries' = r.seq
                     /\ generation' = generation + 1
                     /\ txn' = forget([txn EXCEPT ![t].changes = r.changes,
                                                  ![t].watches = <<>>,
                                                  ![t].stage = created_k,
                                                  ![t].generation = generation + 1,
                                                  ![t].called = {},
                                                  ![t].pending = <<>>,
                                                  ![t].watched = {},
                                                  ![t].rival = {}], t)
                     /\ last' = [op |-> "txn_rollback", t |-> t, status |-> success_k]
                     /\ UNCHANGED crashed
                ELSE /\ crashed' = TRUE
                     /\ last' = [op |-> "txn_rollback", t |-> t, status |-> "undefined"]
                     /\ UNCHANGED <<entries, generation, txn>>
    /\ UNCHANGED <<variant, budget, visible_count, clears>>

\* the loop of commit(): unmask_and_compact over each link's equal_range
RECURSIVE set_commit_loop(_, _, _, _)
set_commit_loop(s, count, watches, i) ==
    IF i > Len(watches) THEN [seq |-> s, count |-> count]
    ELSE LET first == set_lower_bound(s, watches[i].id)
             second == set_upper_bound(s, watches[i].id)
             r == unmask_and_compact(s, count, first, second, watches[i].watch.gen)
         IN  set_commit_loop(r.seq, r.count, watches, i + 1)

\* the pending writes of a transaction, in identifier order
changes_of(u) ==
    IF variant = "set" THEN txn[u].changes ELSE for_each_left_right(txn[u].changes)

\* the identifiers a transaction has both watched and upserted, and holds
\* ready to commit
contended(u) ==
    IF txn[u].stage = staged_k
        THEN {id \in txn[u].watched :
                \E i \in 1..Len(txn[u].pending) :
                    txn[u].pending[i].id = id /\ ~txn[u].pending[i].deleted}
        ELSE {id \in txn[u].called :
                \E i \in 1..Len(changes_of(u)) :
                    changes_of(u)[i].id = id /\ ~changes_of(u)[i].deleted}

\* transaction_t::commit()
SetTxnCommit(t) ==
    /\ variant = "set" /\ running
    /\ tick
    /\ txn[t].open
    /\ IF txn[t].stage # staged_k
        THEN /\ last' = [op |-> "txn_commit", t |-> t, status |-> operation_not_permitted_k]
             /\ UNCHANGED <<entries, visible_count, txn>>
        ELSE LET r == set_commit_loop(entries, visible_count, txn[t].watches, 1)
                 mine == contended(t)
             IN  /\ entries' = r.seq
                 /\ visible_count' = r.count
                 /\ txn' = [u \in Txns |->
                        IF u = t
                        THEN [txn[t] EXCEPT !.stage = created_k, !.pending = <<>>,
                                            !.watched = {}, !.rival = {}, !.after = {}]
                        ELSE [txn[u] EXCEPT !.rival = @ \cup (mine \cap contended(u))]]
                 /\ last' = [op |-> "txn_commit", t |-> t, status |-> success_k,
                             writes |-> txn[t].pending,
                             after |-> txn[t].after,
                             lost |-> mine \cap txn[t].rival]
    /\ UNCHANGED <<variant, budget, generation, clears, crashed>>

\* ------------------------------------------------------------------------
\* Specification of the std::set variant
\* ------------------------------------------------------------------------
Bounds == 1..(MaxId + 1)

NextSet ==
    \/ \E id \in Ids, val \in Vals : SetUpsert(id, val)
    \/ \E elements \in Batches : \E failed \in 0..Len(elements) :
            SetUpsertBatch(elements, failed)
    \/ \E lower \in Bounds, upper \in Bounds, write \in {0, MaxVal} :
            SetRangeMut(lower, upper, write)
    \/ \E lower \in Bounds, upper \in Bounds : SetEraseRange(lower, upper)
    \/ SetClear
    \/ \E t \in Txns : Transaction(t)
    \/ \E t \in Txns, id \in Ids, val \in Vals : SetTxnUpsert(t, id, val)
    \/ \E t \in Txns, id \in Ids : SetTxnErase(t, id)
    \/ \E t \in Txns, id \in Ids : SetTxnWatch(t, id)
    \/ \E t \in Txns : SetTxnStage(t)
    \/ \E t \in Txns : SetTxnCommit(t)
    \/ \E t \in Txns : SetTxnReset(t)
    \/ \E t \in Txns : SetTxnRollback(t)

SpecSet == InitSet /\ [][NextSet]_vars

\* The same container driven by top-level upserts, clear() and transactions
\* that are staged and committed, over longer runs
InitSetTxn ==
    /\ variant = "set"
    /\ entries = <<>>
    /\ generation = 0
    /\ visible_count = 0
    /\ txn = [t \in Txns |-> NoTxn]
    /\ clears = 0
    /\ ops = 0
    /\ budget = MaxTxnOps
    /\ crashed = FALSE
    /\ last = NoCall
    /\ parts = <<>> /\ mutexes = <<>> /\ threads = <<>>

NextSetTxn ==
    \/ \E id \in Ids, val \in Vals : SetUpsert(id, val)
    \/ SetClear
    \/ \E t \in Txns : Transaction(t)
    \/ \E t \in Txns, id \in Ids, val \in Vals : SetTxnUpsert(t, id, val)
    \/ \E t \in Txns, id \in Ids : SetTxnWatch(t, id)
    \/ \E t \in Txns : SetTxnStage(t)
    \/ \E t \in Txns : SetTxnCommit(t)

SpecSetTxn == InitSetTxn /\ [][NextSetTxn]_vars

\* Transactions racing on the container, each running the optimistic
\* protocol in program order: watch, upsert, stage, commit
InitSetRace ==
    /\ variant = "set"
    /\ entries = <<>>
    /\ generation = 0
    /\ visible_count = 0
    /\ txn = [t \in Txns |-> NoTxn]
    /\ clears = 0
    /\ ops = 0
    /\ budget = 0
    /\ crashed = FALSE
    /\ last = NoCall
    /\ parts = <<>> /\ mutexes = <<>> /\ threads = <<>>

SetRaceWatch(t, id) ==
    /\ txn[t].stage = created_k /\ txn[t].called = {} /\ txn[t].changes = <<>>
    /\ SetTxnWatch(t, id)

SetRaceUpsert(t, id, val) ==
    /\ txn[t].stage = created_k /\ txn[t].called # {} /\ txn[t].changes = <<>>
    /\ SetTxnUpsert(t, id, val)

SetRaceStage(t) ==
    /\ txn[t].stage = created_k /\ txn[t].changes # <<>>
    /\ SetTxnStage(t)

SetRaceCommit(t) ==
    /\ txn[t].stage = staged_k
    /\ SetTxnCommit(t)

NextSetRace ==
    \/ \E t \in Txns : Transaction(t)
    \/ \E t \in Txns, id \in Ids : SetRaceWatch(t, id)
    \/ \E t \in Txns, id \in Ids, val \in Vals : SetRaceUpsert(t, id, val)
    \/ \E t \in Txns : SetRaceStage(t)
    \/ \E t \in Txns : SetRaceCommit(t)

SpecSetRace == InitSetRace /\ [][NextSetRace]_vars

\* ------------------------------------------------------------------------
\* consistent_avl_gt : writes
\* ------------------------------------------------------------------------
InitAvl ==
    /\ variant = "avl"
    /\ entries = Nil
    /\ generation = 0
    /\ visible_count = 0
    /\ txn = [t \in Txns |-> NoTxn]
    /\ clears = 0
    /\ ops = 0
    /\ budget = MaxAvlOps
    /\ crashed = FALSE
    /\ last = NoCall
    /\ parts = <<>> /\ mutexes = <<>> /\ threads = <<>>

\* the merge of one visible node and the removal of the older revisions,
\* shared by upsert(element_t&&) and upsert(begin, end)
avl_upsert_entry(root, entry) ==
    avl_erase_range(avl_insert(root, entry), identifier_t(entry.id),
                    dated_identifier_t(entry.id, entry.gen))

\* upsert(element_t&& element)
AvlUpsert(id, val) ==
    /\ variant = "avl" /\ running
    /\ tick
    /\ can_new_generation
    /\ LET root == avl_upsert_entry(entries, entry_t(id, val, generation + 1, FALSE, TRUE))
       IN  IF undefined(root)
            THEN /\ crashed' = TRUE
                 /\ last' = NoCall
                 /\ UNCHANGED <<entries, generation, visible_count>>
            ELSE /\ entries' = root
                 /\ generation' = generation + 1
                 /\ visible_count' = visible_count + 1
                 /\ last' = [op |-> "upsert", id |-> id, val |-> val]
                 /\ UNCHANGED crashed
    /\ UNCHANGED <<variant, budget, txn, clears>>

\* the last loop of upsert(begin, end)
RECURSIVE avl_upsert_batch(_, _, _, _)
avl_upsert_batch(root, elements, i, gen) ==
    IF i > Len(elements) \/ undefined(root) THEN root
    ELSE avl_upsert_batch(
            avl_upsert_entry(root, entry_t(elements[i][1], elements[i][2], gen, FALSE, TRUE)),
            elements, i + 1, gen)

\* upsert(elements_begin_at begin, elements_end_at end); failed is the
\* allocation of the first loop that returns null, 0 when none does
AvlUpsertBatch(elements, failed) ==
    /\ variant = "avl" /\ running
    /\ tick
    /\ can_new_generation
    /\ LET root == avl_upsert_batch(entries, elements, 1, generation + 1)
       IN  IF failed # 0
            THEN /\ last' = [op |-> "upsert_batch", status |-> out_of_memory_heap_k]
                 /\ UNCHANGED <<entries, generation, visible_count, crashed>>
            ELSE IF undefined(root)
            THEN /\ crashed' = TRUE
                 /\ last' = NoCall
                 /\ UNCHANGED <<entries, generation, visible_count>>
            ELSE /\ entries' = root
                 /\ generation' = generation + 1
                 /\ visible_count' = visible_count + Len(elements)
                 /\ last' = [op |-> "upsert_batch", status |-> success_k]
                 /\ UNCHANGED crashed
    /\ UNCHANGED <<variant, budget, txn, clears>>

\* the callback of the mutable range on the nodes the traversal visits
RECURSIVE avl_stamp(_, _, _, _)
avl_stamp(node, visited, gen, write) ==
    IF Len(node) # 4 THEN node
    ELSE <<IF node[1].at \in visited /\ node[1].visible
                THEN [node[1] EXCEPT !.val = IF write = 0 THEN @ ELSE write,
                                     !.gen = gen]
                ELSE node[1],
           avl_stamp(node[2], visited, gen, write),
           avl_stamp(node[3], visited, gen, write), node[4]>>

\* range(lower, upper, callback), the mutable overload
AvlRangeMut(lower, upper, write) ==
    /\ variant = "avl" /\ running
    /\ tick
    /\ can_new_generation
    /\ lower <= upper
    /\ LET t == tagged(entries, 0)
           nodes == avl_range(t, identifier_t(lower), identifier_t(upper))
           visited == {nodes[i].at : i \in 1..Len(nodes)}
       IN  entries' = untagged(avl_stamp(t, visited, generation + 1, write))
    /\ generation' = generation + 1
    /\ last' = NoCall
    /\ UNCHANGED <<variant, budget, visible_count, txn, clears, crashed>>

\* erase_range(lower, upper, callback): the loop extracts the visible
\* entries and has no call of callback
AvlEraseRange(lower, upper) ==
    /\ variant = "avl" /\ running
    /\ tick
    /\ lower <= upper
    /\ LET root == avl_erase_range(entries, identifier_t(lower), identifier_t(upper))
       IN  IF undefined(root)
            THEN /\ crashed' = TRUE
                 /\ last' = NoCall
                 /\ UNCHANGED entries
            ELSE /\ entries' = root
                 /\ last' = [op |-> "erase_range", lower |-> lower, upper |-> upper,
                             erased |-> avl_size(entries) - avl_size(root),
                             callbacks |-> 0]
                 /\ UNCHANGED crashed
    /\ UNCHANGED <<variant, budget, generation, visible_count, txn, clears>>

\* clear()
AvlClear ==
    /\ variant = "avl" /\ running
    /\ tick
    /\ clears < MaxClears
    /\ entries' = Nil
    /\ generation' = 0
    /\ clears' = clears + 1
    /\ last' = NoCall
    /\ UNCHANGED <<variant, budget, visible_count, txn, crashed>>

\* ------------------------------------------------------------------------
\* consistent_avl_gt::transaction_t
\* ------------------------------------------------------------------------
\* transaction_t::upsert(element_t&& element)
AvlTxnUpsert(t, id, val) ==
    /\ variant = "avl" /\ running
    /\ tick
    /\ txn[t].open
    /\ txn' = [txn EXCEPT
            ![t].changes = avl_upsert(@, entry_t(id, val, txn[t].generation, FALSE, FALSE)),
            ![t].after = @ \cup watchers(t, id)]
    /\ last' = NoCall
    /\ UNCHANGED <<variant, budget, entries, generation, visible_count, clears, crashed>>

\* transaction_t::erase(identifier_t const& id)
AvlTxnErase(t, id) ==
    /\ variant = "avl" /\ running
    /\ tick
    /\ txn[t].open
    /\ txn' = [txn EXCEPT
            ![t].changes = avl_upsert(@, entry_t(id, 0, txn[t].generation, TRUE, FALSE)),
            ![t].after = @ \cup watchers(t, id)]
    /\ last' = NoCall
    /\ UNCHANGED <<variant, budget, entries, generation, visible_count, clears, crashed>>

\* transaction_t::watch(identifier_t const& id)
AvlTxnWatch(t, id) ==
    /\ variant = "avl" /\ running
    /\ tick
    /\ txn[t].open
    /\ Len(txn[t].watches) < MaxWatches
    /\ LET r == avl_store_find(entries, id)
       IN  txn' = [txn EXCEPT ![t].watches =
                Append(@, IF r.found
                            THEN watched_identifier_t(r.entry.id, r.entry.gen, r.entry.deleted)
                            ELSE [id |-> id, watch |-> missing_watch(t)]),
                             ![t].called = @ \cup {id}]
    /\ last' = NoCall
    /\ UNCHANGED <<variant, budget, entries, generation, visible_count, clears, crashed>>

\* the first loop of stage()
avl_consistency_violated(t) ==
    \E i \in 1..Len(txn[t].watches) :
        LET id_and_watch == txn[t].watches[i]
            r == avl_store_find(entries, id_and_watch.id)
        IN  IF r.found THEN entry_differs(r.entry, id_and_watch.watch)
                       ELSE watch_differs(missing_watch(t), id_and_watch.watch)

avl_stage_status(t) ==
    IF avl_consistency_violated(t) THEN consistency_k ELSE success_k

\* transaction_t::stage()
AvlTxnStage(t) ==
    /\ variant = "avl" /\ running
    /\ tick
    /\ txn[t].open
    /\ IF avl_consistency_violated(t)
        THEN /\ last' = [op |-> "txn_stage", t |-> t, status |-> consistency_k,
                         again |-> last.op = "txn_rollback" /\ last.t = t
                                   /\ last.status = success_k]
             /\ UNCHANGED <<entries, txn, crashed>>
        ELSE LET root == avl_merge(entries, txn[t].changes)
             IN  IF undefined(root)
                 THEN /\ crashed' = TRUE
                      /\ last' = NoCall
                      /\ UNCHANGED <<entries, txn>>
                 ELSE /\ entries' = root
                      /\ txn' = forget([txn EXCEPT
                            ![t].watches = links(for_each_bottom_up(txn[t].changes),
                                                 txn[t].generation),
                            ![t].changes = Nil,
                            ![t].stage = staged_k,
                            ![t].pending = for_each_left_right(txn[t].changes),
                            ![t].called = {},
                            ![t].watched = txn[t].called], t)
                      /\ last' = [op |-> "txn_stage", t |-> t, status |-> success_k,
                                  again |-> last.op = "txn_rollback" /\ last.t = t
                                            /\ last.status = success_k]
                      /\ UNCHANGED crashed
    /\ UNCHANGED <<variant, budget, generation, visible_count, clears>>

\* the loop of reset(): erase every staged node by its dated identifier
RECURSIVE avl_reset_loop(_, _, _)
avl_reset_loop(root, watches, i) ==
    IF i > Len(watches) \/ undefined(root) THEN root
    ELSE avl_reset_loop(
            extract(root, dated_identifier_t(watches[i].id, watches[i].watch.gen)).root,
            watches, i + 1)

\* transaction_t::reset()
AvlTxnReset(t) ==
    /\ variant = "avl" /\ running
    /\ tick
    /\ txn[t].open
    /\ can_new_generation
    /\ LET root == IF txn[t].stage = staged_k
                    THEN avl_reset_loop(entries, txn[t].watches, 1)
                    ELSE entries
       IN  IF undefined(root)
            THEN /\ crashed' = TRUE
                 /\ UNCHANGED <<entries, generation, txn>>
            ELSE /\ entries' = root
                 /\ generation' = generation + 1
                 /\ txn' = forget([txn EXCEPT ![t] = [NoTxn EXCEPT !.open = TRUE,
                                                      !.generation = generation + 1]], t)
                 /\ UNCHANGED crashed
    /\ last' = NoCall
    /\ UNCHANGED <<variant, budget, visible_count, clears>>

\* the loop of rollback(): move every staged node back into changes_
RECURSIVE avl_rollback_loop(_, _, _, _)
avl_rollback_loop(root, changes, watches, i) ==
    IF i > Len(watches) \/ undefined(root) \/ undefined(changes)
        THEN [root |-> root, changes |-> changes]
    ELSE LET r == extract(root, dated_identifier_t(watches[i].id, watches[i].watch.gen))
         IN  avl_rollback_loop(r.root,
                               IF Len(r.extracted) > 0
                                    THEN avl_insert(changes, r.extracted[1])
                                    ELSE changes,
                               watches, i + 1)

\* transaction_t::rollback()
AvlTxnRollback(t) ==
    /\ variant = "avl" /\ running
    /\ tick
    /\ txn[t].open
    /\ IF txn[t].stage # staged_k
        THEN /\ last' = [op |-> "txn_rollback", t |-> t, status |-> operation_not_permitted_k]
             /\ UNCHANGED <<entries, generation, txn, crashed>>
        ELSE LET r == avl_rollback_loop(entries, txn[t].changes, txn[t].watches, 1)
             IN  IF undefined(r.root) \/ undefined(r.changes)
                 THEN /\ crashed' = TRUE
                      /\ last' = [op |-> "txn_rollback", t |-> t, status |-> "undefined"]
                      /\ UNCHANGED <<entries, generation, txn>>
                 ELSE /\ can_new_generation
                      /\ entries' = r.root
                      /\ generation' = generation + 1
                      /\ txn' = forget([txn EXCEPT ![t].changes = r.changes,
                                                   ![t].watches = <<>>,
                                                   ![t].stage = created_k,
                                                   ![t].generation = generation + 1,
                                                   ![t].called = {},
                                                   ![t].pending = <<>>,
                                                   ![t].watched = {},
                                                   ![t].rival = {}], t)
                      /\ last' = [op |-> "txn_rollback", t |-> t, status |-> success_k]
                      /\ UNCHANGED crashed
    /\ UNCHANGED <<variant, budget, visible_count, clears>>

\* the loop of commit(): unmask_and_compact for each link
RECURSIVE avl_commit_loop(_, _, _)
avl_commit_loop(root, watches, i) ==
    IF i > Len(watches) \/ undefined(root) THEN root
    ELSE avl_commit_loop(
            avl_unmask_and_compact(root, watches[i].id, watches[i].watch.gen),
            watches, i + 1)

\* transaction_t::commit()
AvlTxnCommit(t) ==
    /\ variant = "avl" /\ running
    /\ tick
    /\ txn[t].open
    /\ IF txn[t].stage # staged_k
        THEN /\ last' = [op |-> "txn_commit", t |-> t, status |-> operation_not_permitted_k]
             /\ UNCHANGED <<entries, txn, crashed>>
        ELSE LET root == avl_commit_loop(entries, txn[t].watches, 1)
                 mine == contended(t)
             IN  IF undefined(root)
                 THEN /\ crashed' = TRUE
                      /\ last' = NoCall
                      /\ UNCHANGED <<entries, txn>>
                 ELSE /\ entries' = root
                      /\ txn' = [u \in Txns |->
                            IF u = t
                            THEN [txn[t] EXCEPT !.stage = created_k, !.pending = <<>>,
                                                !.watched = {}, !.rival = {}, !.after = {}]
                            ELSE [txn[u] EXCEPT !.rival = @ \cup (mine \cap contended(u))]]
                      /\ last' = [op |-> "txn_commit", t |-> t, status |-> success_k,
                                  writes |-> txn[t].pending,
                                  after |-> txn[t].after,
                                  lost |-> mine \cap txn[t].rival]
                      /\ UNCHANGED crashed
    /\ UNCHANGED <<variant, budget, generation, visible_count, clears>>

\* ------------------------------------------------------------------------
\* Specification of the AVL variant
\* ------------------------------------------------------------------------
NextAvl ==
    \/ \E id \in Ids, val \in Vals : AvlUpsert(id, val)
    \/ \E elements \in Batches : \E failed \in 0..Len(elements) :
            AvlUpsertBatch(elements, failed)
    \/ \E lower \in Bounds, upper \in Bounds, write \in {0, MaxVal} :
            AvlRangeMut(lower, upper, write)
    \/ \E lower \in Bounds, upper \in Bounds : AvlEraseRange(lower, upper)
    \/ AvlClear
    \/ \E t \in Txns : Transaction(t)
    \/ \E t \in Txns, id \in Ids, val \in Vals : AvlTxnUpsert(t, id, val)
    \/ \E t \in Txns, id \in Ids : AvlTxnErase(t, id)
    \/ \E t \in Txns, id \in Ids : AvlTxnWatch(t, id)
    \/ \E t \in Txns : AvlTxnStage(t)
    \/ \E t \in Txns : AvlTxnCommit(t)
    \/ \E t \in Txns : AvlTxnReset(t)
    \/ \E t \in Txns : AvlTxnRollback(t)

SpecAvl == InitAvl /\ [][NextAvl]_vars

\* The AVL variant driven by top-level writes, the mutable range and
\* transactions that are staged, over longer runs
InitAvlErase ==
    /\ variant = "avl"
    /\ entries = Nil
    /\ generation = 0
    /\ visible_count = 0
    /\ txn = [t \in Txns |-> NoTxn]
    /\ clears = 0
    /\ ops = 0
    /\ budget = MaxAvlEraseOps
    /\ crashed = FALSE
    /\ last = NoCall
    /\ parts = <<>> /\ mutexes = <<>> /\ threads = <<>>

NextAvlErase ==
    \/ \E id \in Ids, val \in Vals : AvlUpsert(id, val)
    \/ \E elements \in Batches : \E failed \in 0..Len(elements) :
            AvlUpsertBatch(elements, failed)
    \/ \E lower \in Bounds, upper \in Bounds, write \in {0, MaxVal} :
            AvlRangeMut(lower, upper, write)
    \/ \E lower \in Bounds, upper \in Bounds : AvlEraseRange(lower, upper)
    \/ \E t \in Txns : Transaction(t)
    \/ \E t \in Txns, id \in Ids, val \in Vals : AvlTxnUpsert(t, id, val)
    \/ \E t \in Txns : AvlTxnStage(t)

SpecAvlErase == InitAvlErase /\ [][NextAvlErase]_vars

\* sanity: identifiers of the std::set stay in order whatever happens
SetIdsSorted ==
    variant = "set" =>
        \A i \in 1..(Len(entries) - 1) : entries[i].id <= entries[i + 1].id

\* sanity: identifiers of the tree stay in order whatever happens
AvlIdsSorted ==
    variant = "avl" =>
        \A i \in 1..(avl_size(entries) - 1) :
            for_each_left_right(entries)[i].id <= for_each_left_right(entries)[i + 1].id

\* ------------------------------------------------------------------------
\* partitioned_gt over consistent_set_gt : locks taken out of order
\* ------------------------------------------------------------------------
\* part_t::make(): an empty container
new_part == [entries |-> <<>>, generation |-> 0, visible_count |-> 0]

\* a thread outside of any call
NoThread ==
    [pc |-> "idle", call |-> "none", part_idx |-> 0, finished |-> {}, txn |-> <<>>,
     loaded |-> 0]

\* std::shared_mutex::try_lock() when unique, try_lock_shared() when not
try_lock(mutex, unique) == mutex.writer = 0 /\ (unique => mutex.readers = {})

\* the kind of lock a call asks lock_out_of_order for: size() and the const
\* range() share; the mutable range(), erase_range() and clear() exclude
make_unique(call) == call \in {"range_mut", "erase_range", "clear"}

InitLocks ==
    /\ variant = "set"
    /\ entries = <<>>
    /\ generation = 0
    /\ visible_count = 0
    /\ txn = [t \in Txns |-> NoTxn]
    /\ clears = 0
    /\ ops = 0
    /\ budget = 0
    /\ crashed = FALSE
    /\ last = NoCall
    /\ parts = [p \in Parts |-> new_part]
    /\ mutexes = [p \in Parts |-> [writer |-> 0, readers |-> {}]]
    /\ threads = [th \in Threads |-> NoThread]

\* a thread enters size(), range(), erase_range() or clear(), up to the
\* first lines of lock_out_of_order
Call(th, call) ==
    /\ threads[th].pc = "idle"
    /\ threads' = [threads EXCEPT ![th] =
            [NoThread EXCEPT !.pc = "cycle", !.call = call, !.part_idx = 1]]
    /\ UNCHANGED <<variant, entries, generation, visible_count, txn, clears, ops, budget,
                   crashed, last, parts, mutexes>>

\* one turn of the for loop of lock_out_of_order and, after its last turn,
\* the test of remaining_count
LockOutOfOrder(th) ==
    /\ threads[th].pc = "cycle"
    /\ LET part_idx == threads[th].part_idx
           locked == /\ part_idx \notin threads[th].finished
                     /\ try_lock(mutexes[part_idx], make_unique(threads[th].call))
           finished == threads[th].finished \cup (IF locked THEN {part_idx} ELSE {})
       IN  /\ mutexes' =
                IF ~locked THEN mutexes
                ELSE IF make_unique(threads[th].call)
                THEN [mutexes EXCEPT ![part_idx].writer = th]
                ELSE [mutexes EXCEPT ![part_idx].readers = @ \cup {th}]
           /\ threads' = [threads EXCEPT
                ![th].finished = finished,
                ![th].part_idx = IF part_idx < MaxParts THEN part_idx + 1 ELSE 1,
                ![th].pc = IF part_idx = MaxParts /\ finished = Parts
                                THEN "locked" ELSE "cycle"]
    /\ UNCHANGED <<variant, entries, generation, visible_count, txn, clears, ops, budget,
                   crashed, last, parts>>

\* the loop of partitioned_gt::size() from the part numbered p on: every
\* turn adds parts_.size(), the length of the array of parts
RECURSIVE partitioned_size(_)
partitioned_size(p) ==
    IF p > MaxParts THEN 0 ELSE Len(parts) + partitioned_size(p + 1)

\* the rest of the call once every lock is held: the work on the parts, the
\* unlocking loop and the return.  The mutable range() and erase_range()
\* give their exclusive locks back with unlock_shared(), which is undefined:
\* the mutex is released or stays locked
Return(th, lower, upper, released) ==
    /\ threads[th].pc = "locked"
    /\ lower <= upper
    /\ parts' =
        CASE threads[th].call = "erase_range" ->
                [p \in Parts |->
                    LET ev == erase_visible(parts[p].entries,
                                            set_lower_bound(parts[p].entries, lower),
                                            set_lower_bound(parts[p].entries, upper))
                    IN  [parts[p] EXCEPT !.entries = ev.seq,
                                         !.visible_count = @ - ev.erased]]
          [] threads[th].call = "clear" -> [p \in Parts |-> new_part]
          [] OTHER -> parts
    /\ mutexes' = [p \in Parts |->
            IF ~make_unique(threads[th].call)
                THEN [mutexes[p] EXCEPT !.readers = @ \ {th}]
            ELSE IF threads[th].call = "clear" \/ released
                THEN [mutexes[p] EXCEPT !.writer = 0]
                ELSE mutexes[p]]
    /\ threads' = [threads EXCEPT ![th] = NoThread]
    /\ last' = IF threads[th].call = "size"
                THEN [op |-> "size", status |-> success_k, total |-> partitioned_size(1)]
                ELSE last
    /\ UNCHANGED <<variant, entries, generation, visible_count, txn, clears, ops, budget,
                   crashed>>

NextLocks ==
    \/ \E th \in Threads : \E call \in {"size", "range", "range_mut", "erase_range", "clear"} :
            Call(th, call)
    \/ \E th \in Threads : LockOutOfOrder(th)
    \/ \E th \in Threads : \E lower, upper \in Bounds : \E released \in BOOLEAN :
            Return(th, lower, upper, released)

\* every thread that is inside a call is scheduled again and again
SpecLocks ==
    /\ InitLocks
    /\ [][NextLocks]_vars
    /\ \A th \in Threads :
            /\ WF_vars(LockOutOfOrder(th))
            /\ WF_vars(\E lower, upper \in Bounds : \E released \in BOOLEAN :
                            Return(th, lower, upper, released))

\* ------------------------------------------------------------------------
\* partitioned_gt over consistent_set_gt : transactions of concurrent threads,
\* as test_partitioned_set_transaction_concurrent_upsert runs them
\* ------------------------------------------------------------------------
\* bucket(id) with std::hash<std::size_t>, the identity; parts count from 1
bucket(id) == (id % MaxParts) + 1

\* part_transaction_t::reset, stage and commit on one part: the status and
\* what becomes of the part and of the transaction of that part
part_call(call, part, ptxn) ==
    CASE call = "reset" ->
            {[status |-> success_k,
              part |-> [part EXCEPT !.entries = reverted, !.generation = @ + 1],
              txn |-> [changes |-> <<>>, watches |-> <<>>,
                       generation |-> part.generation + 1, stage |-> created_k]] :
                reverted \in IF ptxn.stage = staged_k
                                THEN set_reset_loop(part.entries, ptxn.watches, 1)
                                ELSE {part.entries}}
      [] call = "stage" ->
            IF \E i \in 1..Len(ptxn.watches) :
                    LET id_and_watch == ptxn.watches[i]
                        r == set_find(part.entries, id_and_watch.id)
                    IN  IF r.found
                            THEN entry_differs(r.entry, id_and_watch.watch)
                            ELSE watch_differs(watch_t(ptxn.generation, TRUE),
                                               id_and_watch.watch)
                THEN {[status |-> consistency_k, part |-> part, txn |-> ptxn]}
                ELSE {[status |-> success_k,
                       part |-> [part EXCEPT !.entries = m.target],
                       txn |-> [ptxn EXCEPT !.watches = links(ptxn.changes, ptxn.generation),
                                            !.changes = m.source,
                                            !.stage = staged_k]] :
                        m \in set_merge(part.entries, ptxn.changes)}
      [] call = "commit" ->
            IF ptxn.stage # staged_k
                THEN {[status |-> operation_not_permitted_k, part |-> part, txn |-> ptxn]}
                ELSE LET r == set_commit_loop(part.entries, part.visible_count,
                                              ptxn.watches, 1)
                     IN  {[status |-> success_k,
                           part |-> [part EXCEPT !.entries = r.seq,
                                                 !.visible_count = r.count],
                           txn |-> [ptxn EXCEPT !.stage = created_k]]}

\* the threads stand at the first line of the task
InitPartitioned ==
    /\ variant = "set"
    /\ entries = <<>>
    /\ generation = 0
    /\ visible_count = 0
    /\ txn = [t \in Txns |-> NoTxn]
    /\ clears = 0
    /\ ops = 0
    /\ budget = 0
    /\ crashed = FALSE
    /\ last = NoCall
    /\ parts = [p \in Parts |-> new_part]
    /\ mutexes = [p \in Parts |-> [writer |-> 0, readers |-> {}]]
    /\ threads = [th \in Threads |->
                    [NoThread EXCEPT !.pc = "transaction", !.call = "task", !.part_idx = 1]]

\* set.transaction(): parts_[part_idx].transaction() for one part, which is
\* `++generation_` on the part with no lock held; its load and its store are
\* two steps, as concurrent calls race on the counter
PartTransaction(th) ==
    /\ threads[th].pc \in {"transaction", "new_generation"}
    /\ LET part_idx == threads[th].part_idx
       IN  IF threads[th].pc = "transaction"
           THEN /\ threads' = [threads EXCEPT ![th].loaded = parts[part_idx].generation,
                                              ![th].pc = "new_generation"]
                /\ UNCHANGED parts
           ELSE /\ parts' = [parts EXCEPT ![part_idx].generation = threads[th].loaded + 1]
                /\ threads' = [threads EXCEPT
                        ![th].txn = Append(@, [changes |-> <<>>, watches |-> <<>>,
                                               generation |-> threads[th].loaded + 1,
                                               stage |-> created_k]),
                        ![th].loaded = 0,
                        ![th].part_idx = IF part_idx < MaxParts THEN part_idx + 1 ELSE 1,
                        ![th].pc = IF part_idx < MaxParts THEN "transaction" ELSE "reset"]
    /\ UNCHANGED <<variant, entries, generation, visible_count, txn, clears, ops, budget,
                   crashed, last, mutexes>>

\* one turn of the for loop of for_all<unique_lock_t> under txn.reset(),
\* txn.stage() or txn.commit(), with the task's reaction to the status once
\* for_all returns
ForParts(th) ==
    /\ threads[th].pc \in {"reset", "stage", "commit"}
    /\ LET call == threads[th].pc
           part_idx == threads[th].part_idx
           after_success == CASE call = "reset" -> "upsert"
                              [] call = "stage" -> "commit"
                              [] call = "commit" -> "done"
           after_failure == IF call = "reset" THEN "upsert" ELSE "transaction"
       IN  IF part_idx \in threads[th].finished \/ ~try_lock(mutexes[part_idx], TRUE)
           THEN /\ threads' = [threads EXCEPT
                        ![th].part_idx = IF part_idx < MaxParts THEN part_idx + 1 ELSE 1]
                /\ UNCHANGED parts
           ELSE \E r \in part_call(call, parts[part_idx], threads[th].txn[part_idx]) :
                    LET finished == threads[th].finished \cup {part_idx}
                        returns == part_idx = MaxParts /\ finished = Parts
                    IN  /\ parts' = [parts EXCEPT ![part_idx] = r.part]
                        /\ threads' = [threads EXCEPT
                                ![th].txn = IF r.status # success_k /\ call # "reset"
                                                THEN <<>>
                                                ELSE [@ EXCEPT ![part_idx] = r.txn],
                                ![th].finished = IF r.status # success_k \/ returns
                                                    THEN {} ELSE finished,
                                ![th].part_idx = IF r.status # success_k \/ returns
                                                        \/ part_idx = MaxParts
                                                    THEN 1 ELSE part_idx + 1,
                                ![th].pc = IF r.status # success_k THEN after_failure
                                           ELSE IF returns THEN after_success
                                           ELSE call]
    /\ UNCHANGED <<variant, entries, generation, visible_count, txn, clears, ops, budget,
                   crashed, last, mutexes>>

\* the for loop of the task: txn.upsert(pair_t(i, thread_idx)) for every key,
\* each into the change-set of the part the key hashes to
Upserts(th) ==
    /\ threads[th].pc = "upsert"
    /\ threads' = [threads EXCEPT
            ![th].txn = [p \in Parts |->
                [@[p] EXCEPT !.changes =
                    set_txn_upserts(@, SelectSeq([i \in 1..MaxId |-> <<i, th>>],
                                                 LAMBDA e : bucket(e[1]) = p),
                                    1, threads[th].txn[p].generation)]],
            ![th].pc = "stage"]
    /\ UNCHANGED <<variant, entries, generation, visible_count, txn, clears, ops, budget,
                   crashed, last, parts, mutexes>>

NextPartitioned ==
    \/ \E th \in Threads : PartTransaction(th)
    \/ \E th \in Threads : ForParts(th)
    \/ \E th \in Threads : Upserts(th)

SpecPartitioned == InitPartitioned /\ [][NextPartitioned]_vars

\* ------------------------------------------------------------------------
\* Calls and reads of the container, whichever class it is
\* ------------------------------------------------------------------------
UpsertBatch(elements, failed) ==
    SetUpsertBatch(elements, failed) \/ AvlUpsertBatch(elements, failed)

\* ------------------------------------------------------------------------
\* Reads of the container, whichever class it is
\* ------------------------------------------------------------------------
find(id) ==
    IF variant = "set" THEN set_find(entries, id) ELSE avl_store_find(entries, id)

upper_bound(id) ==
    IF variant = "set" THEN set_upper_bound_visible(entries, id)
    ELSE avl_store_upper_bound(entries, id)

range(lower, upper) ==
    IF variant = "set" THEN set_range(entries, lower, upper)
    ELSE avl_store_range(entries, lower, upper)

\* the stored entries in iteration order
stored == IF variant = "set" THEN entries ELSE for_each_left_right(entries)

\* the status stage() of transaction u would return now
stage_status(u) ==
    IF variant = "set" THEN set_stage_status(u) ELSE avl_stage_status(u)

is_upsert_of(r, id, val) == r.found /\ r.entry.id = id /\ r.entry.val = val

committed == last.op = "txn_commit" /\ last.status = success_k

\* size()
size == IF variant = "set" THEN visible_count ELSE avl_size(entries)

\* what size and find show of a store: the size and, per identifier, the
\* element find hands to its callback, or nothing when it reports missing
shows(s, count) ==
    [size |-> IF variant = "set" THEN count ELSE avl_size(s),
     found |-> [id \in Ids |->
                LET r == IF variant = "set" THEN set_find(s, id) ELSE avl_store_find(s, id)
                IN  IF r.found THEN <<r.entry.id, r.entry.val>> ELSE <<>>]]

\* the same for the AVL variant
RECURSIVE avl_txn_upserts(_, _, _, _)
avl_txn_upserts(changes, elements, i, gen) ==
    IF i > Len(elements) \/ undefined(changes) THEN changes
    ELSE avl_txn_upserts(
            avl_upsert(changes, entry_t(elements[i][1], elements[i][2], gen, FALSE, FALSE)),
            elements, i + 1, gen)

\* what the store shows after transaction(), the upserts, stage() and commit()
by_transaction(elements) ==
    LET gen == generation + 1
    IN  IF variant = "set"
        THEN LET changes == set_txn_upserts(<<>>, elements, 1, gen)
             IN  {LET r == set_commit_loop(m.target, visible_count, links(changes, gen), 1)
                  IN  shows(r.seq, r.count) : m \in set_merge(entries, changes)}
        ELSE LET changes == avl_txn_upserts(Nil, elements, 1, gen)
                 watches == links(for_each_bottom_up(changes), gen)
             IN  {shows(avl_commit_loop(avl_merge(entries, changes), watches, 1), 0)}

\* ------------------------------------------------------------------------
\* The pitfall with watching missing values: the first transaction only
\* watches identifiers that are missing and stages; the second object adds
\* what is missing, removes what is there, stages, commits, and after a
\* commit is reset() into the next transaction
\* ------------------------------------------------------------------------
SetPitfallWatch(id) ==
    /\ ~set_find(entries, id).found
    /\ SetTxnWatch(1, id)

SetPitfallWrite(id, val, remove) ==
    /\ txn[2].stage = created_k
    /\ \A i \in 1..Len(txn[2].changes) : txn[2].changes[i].id # id
    /\ IF remove
        THEN /\ set_find(entries, id).found /\ ~set_find(entries, id).entry.deleted
             /\ SetTxnErase(2, id)
        ELSE /\ ~set_find(entries, id).found
             /\ SetTxnUpsert(2, id, val)

NextSetPitfall ==
    \/ \E t \in Txns : Transaction(t)
    \/ \E id \in Ids : SetPitfallWatch(id)
    \/ \E id \in Ids, val \in Vals, remove \in BOOLEAN : SetPitfallWrite(id, val, remove)
    \/ \E t \in Txns : txn[t].stage = created_k /\ SetTxnStage(t)
    \/ SetTxnCommit(2)
    \/ txn[2].changes = <<>> /\ txn[2].stage = created_k /\ SetTxnReset(2)

SpecSetPitfall == InitSetRace /\ [][NextSetPitfall]_vars

\* ------------------------------------------------------------------------
\* locked_gt : one consistent_set_gt under one std::shared_mutex, mutexes[1].
\* A thread is idle, inside the callback of find() with the shared lock
\* held, waiting in a lock() that never returns, or terminated.
\* ------------------------------------------------------------------------
InitLocked ==
    /\ variant = "set"
    /\ entries = <<>>
    /\ generation = 0
    /\ visible_count = 0
    /\ txn = [t \in Txns |-> NoTxn]
    /\ clears = 0
    /\ ops = 0
    /\ budget = 0
    /\ crashed = FALSE
    /\ last = NoCall
    /\ parts = <<>>
    /\ mutexes = <<[writer |-> 0, readers |-> {}]>>
    /\ threads = [th \in Threads |-> NoThread]

\* locked_gt::find up to the call of callback_found or callback_missing:
\* std::shared_lock waits until no writer holds mutex_
LockedFind(th, id) ==
    /\ ~crashed
    /\ threads[th].pc = "idle"
    /\ try_lock(mutexes[1], FALSE)
    /\ mutexes' = [mutexes EXCEPT ![1].readers = @ \cup {th}]
    /\ threads' = [threads EXCEPT ![th].pc = "callback", ![th].call = "find"]
    /\ last' = [op |-> "find", id |-> id, found |-> set_find(entries, id).found]
    /\ UNCHANGED <<variant, entries, generation, visible_count, txn, clears, ops, budget,
                   crashed, parts>>

\* the callback returns, then find(): the shared lock is released
LockedReturn(th) ==
    /\ ~crashed
    /\ threads[th].pc = "callback"
    /\ mutexes' = [mutexes EXCEPT ![1].readers = @ \ {th}]
    /\ threads' = [threads EXCEPT ![th] = NoThread]
    /\ last' = NoCall
    /\ UNCHANGED <<variant, entries, generation, visible_count, txn, clears, ops, budget,
                   crashed, parts>>

\* locked_gt::upsert(element_t&&): std::unique_lock, the upsert of the
\* wrapped container, unlock.  Called from inside the callback, lock() is
\* called by a thread that owns mutex_ in shared mode, which is undefined:
\* lock() never returns, or it throws out of the noexcept upsert and the
\* program terminates
LockedUpsert(th, id, val, thrown) ==
    \/ /\ threads[th].pc = "idle" /\ ~thrown
       /\ try_lock(mutexes[1], TRUE)
       /\ SetUpsert(id, val)
    \/ /\ ~crashed
       /\ threads[th].pc = "callback"
       /\ threads' = [threads EXCEPT ![th].call = "upsert",
                            ![th].pc = IF thrown THEN "terminated" ELSE "waiting"]
       /\ crashed' = thrown
       /\ last' = NoCall
       /\ UNCHANGED <<variant, entries, generation, visible_count, txn, clears, ops,
                      budget, parts, mutexes>>

NextLocked ==
    \/ \E th \in Threads, id \in Ids : LockedFind(th, id)
    \/ \E th \in Threads : LockedReturn(th)
    \/ \E th \in Threads, id \in Ids, val \in Vals, thrown \in BOOLEAN :
            LockedUpsert(th, id, val, thrown)

SpecLocked == InitLocked /\ [][NextLocked]_vars

\* sample_range(lower, upper, generator, callback) : the sequence of callback
\* arguments when the distribution over 0..count-1 draws generated; the
\* second pass skips matches while matches_to_skip is not zero and hands
\* every later match to callback
set_sample_range(s, lower, upper, generated) ==
    LET matches == set_range(s, lower, upper)
        count == Len(matches)
    IN  IF count = 0 THEN <<>> ELSE SubSeq(matches, generated + 1, count)

\* transaction_t::find(comparable, callback_found, callback_missing):
\* changes_.find first, the store's find when changes_ has no such entry
txn_find(t, id) ==
    IF variant = "set"
    THEN LET changes == txn[t].changes
             iterator == set_lower_bound(changes, id)
         IN  IF iterator <= Len(changes) /\ same(changes[iterator].id, id)
             THEN IF ~changes[iterator].deleted THEN Found(changes[iterator])
                                                ELSE Missing
             ELSE find(id)
    ELSE LET iterator == avl_find(txn[t].changes, identifier_t(id))
         IN  IF Len(iterator) > 0
             THEN IF ~iterator[1].deleted THEN Found(iterator[1]) ELSE Missing
             ELSE find(id)

\* partitioned_gt::upper_bound that asks the first part alone
partitioned_upper_bound_first(key) == set_upper_bound_visible(parts[1].entries, key)

\* partitioned_gt::upper_bound, that is for_all_next_lookups, while every
\* try-lock succeeds: one turn of the loop per part keeps the smallest
\* identifier the parts report above the key, <<smallest_id, smallest_idx>>,
\* then the element is looked up again in its part; a lookup that misses
\* restarts the same walk, which never returns
partitioned_upper_bound(key) ==
    LET cycle[part_idx \in 0..MaxParts] ==
            IF part_idx = 0 THEN <<>>
            ELSE LET smallest == cycle[part_idx - 1]
                     r == set_upper_bound_visible(parts[part_idx].entries, key)
                 IN  IF ~r.found THEN smallest
                     ELSE IF Len(smallest) > 0 /\ ~native_compare(r.entry.id, smallest[1])
                        THEN smallest
                     ELSE <<r.entry.id, part_idx>>
        smallest == cycle[MaxParts]
    IN  IF Len(smallest) = 0 THEN Missing
        ELSE IF set_find(parts[smallest[2]].entries, smallest[1]).found
            THEN set_find(parts[smallest[2]].entries, smallest[1])
        ELSE Unreturned

\* the keys a read is asked about: every identifier and one below them all
Keys == 0..MaxId

\* transaction_t::upper_bound : one turn of its do-while loop, that is the
\* store's upper_bound(external_previous_id) and the callback it invokes.
\* call is the state of the call: the key, external_previous_id,
\* faced_deleted_entry, and the callbacks invoked so far with the last one's
\* argument
txn_upper_bound_turn(s, changes, call) ==
    LET live == {p \in set_upper_bound(changes, call.key)..Len(changes) :
                    ~changes[p].deleted}
        at_end == live = {}
        internal_element == changes[Min(live)]
        external == set_upper_bound_visible(s, call.external_previous_id)
        external_element == external.entry
        state == set_lower_bound(changes, external_element.id)
        callback_found(element) ==
            [call EXCEPT !.calls = @ + 1, !.found = TRUE, !.id = element.id,
                         !.val = element.val]
        callback_missing ==
            [call EXCEPT !.calls = @ + 1, !.found = FALSE, !.id = 0, !.val = 0]
    IN  IF external.found
        THEN IF at_end THEN callback_found(external_element)
             ELSE IF ~native_compare(external_element.id, internal_element.id)
                THEN callback_found(internal_element)
             ELSE IF /\ state <= Len(changes)
                     /\ same(changes[state].id, external_element.id)
                     /\ changes[state].deleted
                THEN [call EXCEPT !.faced_deleted_entry = TRUE,
                                  !.external_previous_id = external_element.id]
             ELSE callback_found(external_element)
        ELSE IF at_end THEN callback_missing
             ELSE callback_found(internal_element)

\* the do-while loop: it goes on while faced_deleted_entry is set, which no
\* turn ever clears; the model leaves it after MaxTurns turns
RECURSIVE txn_upper_bound_loop(_, _, _, _)
txn_upper_bound_loop(s, changes, call, turns) ==
    LET status == txn_upper_bound_turn(s, changes, call)
    IN  IF status.faced_deleted_entry /\ turns < MaxTurns
        THEN txn_upper_bound_loop(s, changes, status, turns + 1)
        ELSE [status EXCEPT !.returned = ~status.faced_deleted_entry]

\* transaction_t::upper_bound(comparable, callback_found, callback_missing)
txn_upper_bound(s, changes, key) ==
    txn_upper_bound_loop(s, changes,
        [key |-> key, external_previous_id |-> key, faced_deleted_entry |-> FALSE,
         calls |-> 0, found |-> FALSE, id |-> 0, val |-> 0, returned |-> FALSE], 1)

\* ------------------------------------------------------------------------
\* Claims
\* ------------------------------------------------------------------------

\* C1: once stage() and commit() of a transaction have returned Success,
\* find(k) reports on_found with the element the transaction last upserted
\* for k, for every identifier k it upserted.
C1_CommittedWritesAreRead ==
    committed =>
        \A i \in 1..Len(last.writes) :
            ~last.writes[i].deleted =>
                is_upsert_of(find(last.writes[i].id), last.writes[i].id, last.writes[i].val)

\* C2: if T2 called watch(k) and afterwards T1 wrote k and completed stage()
\* and commit() with Success, the next T2.stage() returns Consistency.
C2_WatcherGetsConsistency ==
    committed =>
        \A p \in last.after :
            LET u == p[1]
                k == p[2]
            IN  (/\ k \in ids_of(last.writes)
                 /\ txn[u].open /\ txn[u].stage = created_k /\ k \in txn[u].called)
                    => stage_status(u) = consistency_k

\* C3: if T1 and T2 each watch(k) and each upsert k before either of them
\* commits, at most one of them obtains Success from both stage() and
\* commit().
C3_NoLostUpdate ==
    committed => last.lost = {}

\* C4: in every reachable state the storage holds at most one entry with
\* visible = true per identifier.
C4_OneVisiblePerIdentifier ==
    \A id \in Ids :
        Cardinality({i \in 1..Len(stored) : stored[i].id = id /\ stored[i].visible}) <= 1

\* C5: in every reachable state the storage is sorted by (identifier,
\* generation): identifiers ascending and, for equal identifiers, generations
\* strictly ascending.
C5_StorageSorted ==
    \A i \in 1..(Len(stored) - 1) : dated_compare(stored[i], stored[i + 1])

\* C6: an upsert(x) that returned Success, followed immediately by
\* find(id_of(x)), reports on_found with an entry whose element equals x.
C6_UpsertThenFind ==
    last.op = "upsert" => is_upsert_of(find(last.id), last.id, last.val)

\* C7: after a transaction that called erase(k) has staged and committed,
\* find(k) reports on_missing, and upper_bound and range never deliver an
\* entry with identifier k.
C7_ErasedIsAbsent ==
    committed =>
        \A i \in 1..Len(last.writes) :
            last.writes[i].deleted =>
                LET k == last.writes[i].id
                IN  /\ ~find(k).found
                    /\ \A j \in 0..MaxId : upper_bound(j).found => upper_bound(j).entry.id # k
                    /\ \A lo \in Bounds, hi \in Bounds :
                            lo <= hi => k \notin ids_of(range(lo, hi))

\* C8: after erase_range(lo, hi, cb) returned Success, find(k) reports
\* on_missing for every identifier k with lo <= k < hi.
C8_ErasedRangeIsMissing ==
    last.op = "erase_range" =>
        \A k \in Ids : (last.lower <= k /\ k < last.upper) => ~find(k).found

\* C9: on the std::set variant range(lo, hi, cb) invokes cb exactly once for
\* each visible entry with lo <= k < hi, in strictly ascending identifier
\* order, and for no other entry.
C9_SetRangeAscending ==
    variant = "set" =>
        \A lo \in Bounds, hi \in Bounds :
            lo <= hi =>
                LET r == set_range(entries, lo, hi)
                    in_range == {i \in 1..Len(entries) :
                                    /\ entries[i].visible
                                    /\ lo <= entries[i].id /\ entries[i].id < hi}
                IN  /\ Len(r) = Cardinality(in_range)
                    /\ \A i \in 1..Len(r) :
                            r[i].visible /\ lo <= r[i].id /\ r[i].id < hi
                    /\ \A i \in 1..(Len(r) - 1) : r[i].id < r[i + 1].id

\* C10: on the AVL variant range(lo, hi, cb) invokes cb with the visible
\* elements of the interval in strictly ascending identifier order and
\* without duplicates, for every shape the balanced tree can take.
C10_AvlRangeAscending ==
    variant = "avl" =>
        \A lo \in Bounds, hi \in Bounds :
            lo <= hi =>
                LET r == avl_store_range(entries, lo, hi)
                IN  \A i \in 1..(Len(r) - 1) : r[i].id < r[i + 1].id

\* C11: whatever list of elements upsert(begin, end) is given, the store
\* shows through find and size what it would show had a fresh transaction
\* upserted the same elements in the same order, been staged and committed.
C11_BatchIsTransaction ==
    [][\A elements \in Batches :
        UpsertBatch(elements, 0) /\ last'.status = success_k =>
            \A twin \in by_transaction(elements) :
                shows(entries', visible_count') = twin]_vars

\* C12: upsert(begin, end) is all or nothing under allocation failure: when
\* an allocation fails the call returns out-of-memory and the entries of the
\* container are what they were; when none fails every element of the list
\* is inserted, stored with the generation of the call.
C12_BatchAllOrNothing ==
    [][\A elements \in Batches : \A failed \in 0..Len(elements) :
        UpsertBatch(elements, failed) /\ last'.op = "upsert_batch" =>
            IF failed # 0
                THEN /\ last'.status = out_of_memory_heap_k
                     /\ entries' = entries
                ELSE /\ last'.status = success_k
                     /\ \A i \in 1..Len(elements) :
                            \E j \in 1..Len(stored') :
                                /\ stored'[j].id = elements[i][1]
                                /\ stored'[j].val = elements[i][2]
                                /\ stored'[j].gen = generation']_vars

\* C13: commit() or rollback() of a transaction whose stage is Created
\* returns operation-not-permitted and changes neither the entries of the
\* container nor the stage, the change-set, the watches or the generation of
\* the transaction.
C13_NotPermittedWhenCreated ==
    [][\A t \in Txns :
        /\ last'.op \in {"txn_commit", "txn_rollback"}
        /\ last'.t = t
        /\ txn[t].stage = created_k
        => /\ last'.status = operation_not_permitted_k
           /\ entries' = entries
           /\ txn'[t].stage = txn[t].stage
           /\ txn'[t].changes = txn[t].changes
           /\ txn'[t].watches = txn[t].watches
           /\ txn'[t].generation = txn[t].generation]_vars

\* a transaction in Created that holds a change and a watch, over a store
\* that holds entries, has just been refused a commit or a rollback
C13_Witness ==
    /\ last.op \in {"txn_commit", "txn_rollback"}
    /\ last.status = operation_not_permitted_k
    /\ txn[last.t].stage = created_k
    /\ Len(changes_of(last.t)) > 0
    /\ Len(txn[last.t].watches) > 0
    /\ Len(stored) > 0

\* C14: taking the locks of all the parts cannot end in two threads that
\* each hold some of the locks and spin for the rest for ever: whenever two
\* threads are inside lock_out_of_order, each holding a lock the other one
\* still asks for, that comes to an end.
C14_NoEndlessSpin ==
    []<>~(\E a, b \in Threads : \E p, q \in Parts :
            /\ a # b
            /\ threads[a].pc = "cycle" /\ threads[b].pc = "cycle"
            /\ p \in threads[a].finished /\ p \notin threads[b].finished
            /\ q \in threads[b].finished /\ q \notin threads[a].finished
            /\ make_unique(threads[a].call) \/ make_unique(threads[b].call))

\* C15: once every thread of the test has opened, reset, filled, staged and
\* committed its transaction on the partitioned container, find succeeds for
\* every key and all the keys carry the value of one and the same thread.
C15_OneThreadWins ==
    (\A th \in Threads : threads[th].pc = "done") =>
        \E winner \in Threads : \A id \in Ids :
            is_upsert_of(set_find(parts[bucket(id)].entries, id), id, winner)

\* C16: two transactions of different generations have both upserted k and
\* both staged; one commits and then the other.  After the second commit
\* the visible entry of k is the one the second committer wrote, and the
\* entry of the first committer is gone from the store.
C16_LastCommitWins ==
    [][\A t, u \in Txns : \A k \in Ids :
        /\ t # u
        /\ last.op = "txn_commit" /\ last.status = success_k /\ last.t = u
        /\ txn[t].stage = staged_k
        /\ txn[t].generation # txn[u].generation
        /\ \E i \in 1..Len(last.writes) :
                last.writes[i].id = k /\ ~last.writes[i].deleted
        /\ \E j \in 1..Len(txn[t].pending) :
                txn[t].pending[j].id = k /\ ~txn[t].pending[j].deleted
        /\ last'.op = "txn_commit" /\ last'.status = success_k /\ last'.t = t
        => /\ \E j \in 1..Len(txn[t].pending) :
                /\ txn[t].pending[j].id = k
                /\ is_upsert_of(find(k)', k, txn[t].pending[j].val)
           /\ ~\E i \in 1..Len(stored') :
                stored'[i].id = k /\ stored'[i].gen = txn[u].generation]_vars

\* C17: a transaction is staged and rolled back; stage() and then commit()
\* are called again with no upsert or erase in between.  Both return
\* success and every upsert the transaction holds is then what find shows.
C17_RollbackThenCommit ==
    [][\A t \in Txns :
        /\ last.op = "txn_stage" /\ last.t = t /\ last.again
        /\ last'.op = "txn_commit" /\ last'.t = t
        => /\ last.status = success_k
           /\ last'.status = success_k
           /\ \A k \in Ids : \A j \in 1..Len(txn[t].pending) :
                txn[t].pending[j].id = k /\ ~txn[t].pending[j].deleted =>
                    is_upsert_of(find(k)', k, txn[t].pending[j].val)]_vars

\* C18: whenever a transaction goes back to Created, by commit(), by
\* rollback() or by reset(), it is given a generation greater than the one it
\* had.
C18_FreshGenerationOnCreated ==
    [][\A t \in Txns :
        \/ txn[t].stage = staged_k /\ txn'[t].stage = created_k
        \/ SetTxnReset(t) \/ AvlTxnReset(t)
        => txn'[t].generation > txn[t].generation]_vars

\* C19: the generations the container hands out only grow: a call that
\* takes a new generation gets one greater than the generation of every
\* entry in the store and of every transaction opened so far, all of which
\* were handed out before.
C19_GenerationsGrow ==
    [][generation' # generation /\ generation' # 0 =>
        /\ \A i \in 1..Len(stored) : stored[i].gen < generation'
        /\ \A t \in Txns : txn[t].open => txn[t].generation < generation']_vars

\* C20: once clear() has returned, size() is 0 and find reports every
\* identifier missing.
C20_ClearEmpties ==
    [][SetClear \/ AvlClear =>
        /\ size' = 0
        /\ \A k \in Ids : ~find(k)'.found]_vars

\* C21: in every state size() is the number of stored entries whose visible
\* flag is set; what a transaction has staged and not committed is not
\* counted.
C21_SizeCountsVisible ==
    size = Cardinality({i \in 1..Len(stored) : stored[i].visible})

\* C22: a call of the partitioned size() that runs with no other call
\* changing the parts returns the sum of the sizes of the parts.
C22_PartitionedSizeIsSum ==
    [][\A th \in Threads : \A lower, upper \in Bounds : \A released \in BOOLEAN :
        (Return(th, lower, upper, released) /\ threads[th].call = "size")
            => last'.total = parts[1].visible_count + parts[2].visible_count]_vars

\* C23: every call of a transaction's upper_bound returns, whatever the
\* container and the change-set hold, tombstones included, and has invoked
\* one callback, once.
C23_TxnUpperBoundReturns ==
    \A t \in Txns : \A key \in Keys :
        (variant = "set" /\ txn[t].open) =>
            LET call == txn_upper_bound(entries, txn[t].changes, key)
            IN  call.returned /\ call.calls = 1

\* C24: a transaction's upper_bound(key) reports the smallest identifier
\* above key among the visible identifiers of the container that the
\* change-set has no tombstone for and the identifiers the change-set upserts;
\* it reports on_missing exactly when there is none, and never a tombstoned
\* identifier.
C24_TxnUpperBoundIsMerged ==
    \A t \in Txns : \A key \in Keys :
        (variant = "set" /\ txn[t].open) =>
            LET changes == txn[t].changes
                call == txn_upper_bound(entries, changes, key)
                tombstoned == {changes[p].id : p \in {q \in 1..Len(changes) : changes[q].deleted}}
                upserted == {changes[p].id : p \in {q \in 1..Len(changes) : ~changes[q].deleted}}
                external == {entries[i].id : i \in {j \in 1..Len(entries) : entries[j].visible}}
                above == {id \in (external \ tombstoned) \cup upserted : id > key}
            IN  call.returned =>
                    /\ call.found <=> above # {}
                    /\ call.found => call.id = Min(above)
                    /\ call.found => call.id \notin tombstoned

\* C25: in every state of a base container, staged revisions that are not
\* visible included, upper_bound(k) reports the visible entry with the
\* smallest identifier strictly above k, never an entry of identifier k, and
\* reports on_missing exactly when no visible entry has an identifier above k.
C25_UpperBoundIsNextVisible ==
    \A k \in Keys :
        LET above == {stored[i].id :
                        i \in {j \in 1..Len(stored) : stored[j].visible /\ stored[j].id > k}}
        IN  /\ upper_bound(k) \in {Missing} \cup {Found(stored[i]) : i \in 1..Len(stored)}
            /\ upper_bound(k).found <=> above # {}
            /\ upper_bound(k).found =>
                    /\ upper_bound(k).entry.visible
                    /\ upper_bound(k).entry.id = Min(above)

\* C26: erase_range(lo, hi, cb) invokes cb once on every visible entry it
\* erases, on both variants: the calls of cb are as many as the entries
\* removed.
C26_EraseRangeCallsBack ==
    last.op = "erase_range" => last.callbacks = last.erased

\* C27: the single-element sample_range(lo, hi, rng, cb) invokes cb at most
\* once, only with a visible element of the interval, and never when the
\* interval holds no visible element, whatever rng draws.
C27_SampleRangeCallsOnce ==
    \A lower \in Bounds : \A upper \in Bounds :
        (variant = "set" /\ lower <= upper) =>
            LET inside == {i \in 1..Len(entries) :
                            /\ entries[i].visible
                            /\ lower <= entries[i].id /\ entries[i].id < upper}
            IN  \A generated \in 0..Max2(Cardinality(inside) - 1, 0) :
                    LET called == set_sample_range(entries, lower, upper, generated)
                    IN  /\ Len(called) <= 1
                        /\ \A c \in 1..Len(called) :
                                \E i \in inside : entries[i] = called[c]
                        /\ inside = {} => called = <<>>

\* C28: range(k, k, cb) is an equal-range lookup: it invokes cb on the
\* visible entry of identifier k whenever the container holds one.
C28_RangeDegradesToEqualRange ==
    \A k \in Ids :
        (\E i \in 1..Len(stored) : stored[i].visible /\ stored[i].id = k)
            => \E c \in 1..Len(range(k, k)) :
                    range(k, k)[c].visible /\ range(k, k)[c].id = k

\* C29: the locked wrapper detects the deadlock: an upsert called from
\* inside the callback of a find on the same container returns
\* operation_would_block_k to the callback, and the thread does not wait
\* for ever.
C29_NestedUpsertWouldBlock ==
    \A th \in Threads :
        threads[th].call = "upsert" =>
            /\ threads[th].pc = "callback"
            /\ last.op = "upsert"
            /\ last.status = operation_would_block_k

\* C30: when k was missing as the first transaction watched it, was then
\* added by a second transaction that committed and removed by a third one
\* that erased it and committed, stage() of the first transaction returns
\* success, not consistency_k.
C30_WatchMissingPitfall ==
    [][\A k \in Ids :
        (/\ SetTxnStage(1)
         /\ \E i \in 1..Len(txn[1].watches) :
                txn[1].watches[i] = [id |-> k, watch |-> missing_watch(1)]
         /\ \E i \in 1..Len(entries) :
                /\ entries[i].id = k /\ entries[i].visible /\ entries[i].deleted
                /\ entries[i].gen > txn[1].generation)
            => last'.status = success_k]_vars

\* every node of the tree balanced, with the height it stores being one more
\* than the greater height of its subtrees
RECURSIVE avl_balanced(_)
avl_balanced(node) ==
    \/ is_nil(node)
    \/ /\ Len(node) = 4
       /\ get_height(node[2]) - get_height(node[3]) \in {-1, 0, 1}
       /\ node[4] = 1 + Max2(get_height(node[2]), get_height(node[3]))
       /\ avl_balanced(node[2])
       /\ avl_balanced(node[3])

\* C31: after any sequence of inserts, upserts, merges and extracts every
\* node of the AVL tree has subtrees whose heights differ by at most one and
\* stores 1 + max of their heights, also after the extraction of a node with
\* two children.
C31_AvlBalanced ==
    (variant = "avl" /\ ~crashed) => avl_balanced(entries)

\* C32: a successful stage() followed at once by reset() or by rollback()
\* leaves the entries of the container as they were before the stage.
C32_UndoRestoresContainer ==
    \A t \in Txns :
        (/\ variant = "set" /\ txn[t].open /\ txn[t].stage = created_k
         /\ ~set_consistency_violated(t))
            => \A m \in set_merge(entries, txn[t].changes) :
                LET watches == links(txn[t].changes, txn[t].generation)
                IN  /\ \A s \in set_reset_loop(m.target, watches, 1) : s = entries
                    /\ \A r \in set_rollback_loop(m.target, m.source, watches, 1) :
                            r.ok /\ r.seq = entries

\* C33: staged writes are isolated from readers: right after a successful
\* stage() the container's find, upper_bound and range report for every
\* argument what they reported right before the stage.
C33_StagedIsInvisible ==
    [][\A t \in Txns : \A k \in Keys : \A lower \in Bounds : \A upper \in Bounds :
        ((SetTxnStage(t) \/ AvlTxnStage(t)) /\ last'.status = success_k /\ ~crashed')
            => /\ find(k)' = find(k)
               /\ upper_bound(k)' = upper_bound(k)
               /\ (lower <= upper => range(lower, upper)' = range(lower, upper))]_vars

\* C34: a transaction in state Created reads its own pending writes:
\* find(k) on it reports on_found with the pending element when its
\* change-set holds an upsert of k, on_missing when its change-set holds a
\* tombstone for k, whatever the container holds, and otherwise what find(k)
\* on the container reports.
C34_TxnReadsItsWrites ==
    \A t \in Txns : \A k \in Ids :
        (txn[t].open /\ txn[t].stage = created_k) =>
            LET changes == changes_of(t)
                upserts == {i \in 1..Len(changes) : changes[i].id = k /\ ~changes[i].deleted}
                tombstones == {i \in 1..Len(changes) : changes[i].id = k /\ changes[i].deleted}
            IN  /\ upserts # {} =>
                    /\ txn_find(t, k).found
                    /\ \E i \in upserts : txn_find(t, k).entry = changes[i]
                /\ tombstones # {} => ~txn_find(t, k).found
                /\ (upserts = {} /\ tombstones = {}) => txn_find(t, k) = find(k)

C36_FailedStageHasNoEffect ==
    [][\A t \in Txns :
        ((SetTxnStage(t) \/ AvlTxnStage(t)) /\ last'.status = consistency_k)
            => /\ entries' = entries
               /\ txn'[t].stage = txn[t].stage
               /\ txn'[t].changes = txn[t].changes
               /\ txn'[t].watches = txn[t].watches
               /\ txn'[t].generation = txn[t].generation]_vars

\* a transaction in Created that holds changes and a watch over a container
\* that holds entries has just been refused its stage
C36_Witness ==
    /\ last.op = "txn_stage"
    /\ last.status = consistency_k
    /\ txn[last.t].stage = created_k
    /\ Len(changes_of(last.t)) > 0
    /\ Len(txn[last.t].watches) > 0
    /\ Len(stored) > 0

\* C37: no spurious conflicts: stage() returns consistency_k only for an
\* identifier the transaction has passed to watch() since it last entered
\* state Created; a transaction that has called no watch() since then never
\* gets consistency_k from stage().
C37_NoSpuriousConflict ==
    [][\A t \in Txns :
        (/\ SetTxnStage(t) \/ AvlTxnStage(t)
         /\ txn[t].stage = created_k
         /\ txn[t].called = {})
            => last'.status # consistency_k]_vars

\* C38: no orphaned staged entries: in every state each entry of the
\* container that is not visible is recorded, by identifier and generation,
\* in the links of exactly one transaction that is in state Staged.
C38_NoOrphanedStagedEntries ==
    \A i \in 1..Len(stored) :
        ~stored[i].visible =>
            Cardinality({t \in Txns :
                /\ txn[t].open /\ txn[t].stage = staged_k
                /\ \E w \in 1..Len(txn[t].watches) :
                        /\ txn[t].watches[w].id = stored[i].id
                        /\ txn[t].watches[w].watch.gen = stored[i].gen}) = 1

\* C39: when a cross-shard operation of the partitioned container (size,
\* range, mutable range, erase_range, clear) returns, the calling thread
\* holds no shard lock, neither shared nor exclusive.
C39_ReturnReleasesLocks ==
    [][\A th \in Threads :
        (\E lower \in Bounds, upper \in Bounds, released \in BOOLEAN :
            Return(th, lower, upper, released))
                => \A p \in Parts : /\ mutexes'[p].writer # th
                                     /\ th \notin mutexes'[p].readers]_vars

\* C40: the partitioned container is free of data races on shard state:
\* every step that writes a shard (its entries or its generation counter) is
\* made by a thread that holds that shard's mutex exclusively, either
\* recorded as its writer or taken by try_lock within the step of for_all.
C40_WritesUnderLock ==
    [][\A p \in Parts :
        parts'[p] # parts[p] =>
            \E th \in Threads :
                /\ threads[th].part_idx = p
                /\ \/ mutexes[p].writer = th
                   \/ ForParts(th) /\ try_lock(mutexes[p], TRUE)]_vars

====
